---- MODULE Spec2Model ----
(***************************************************************************)
(* Model of xee-format: format_integer(i, picture).                        *)
(*                                                                         *)
(* Characters are Unicode code points (integers); strings are sequences of *)
(* code points.  Option<T> is a sequence of length 0 (None) or 1 (Some).   *)
(***************************************************************************)
EXTENDS Integers, Sequences, FiniteSets

\* ------------------------------------------------------------------ bounds

\* longest picture string drawn as input
MaxLen == 5
\* most decimal digits of an input integer
MaxDigits == 4

\* ------------------------------------------------------- generic helpers

None == <<>>
Some(x) == <<x>>

RECURSIVE Reverse(_)
Reverse(s) == IF s = <<>> THEN <<>> ELSE Append(Reverse(Tail(s)), Head(s))

RECURSIVE Repeat(_, _)
Repeat(x, n) == IF n <= 0 THEN <<>> ELSE <<x>> \o Repeat(x, n - 1)

RECURSIVE Strings(_, _)
Strings(alphabet, n) ==
    IF n = 0 THEN {<<>>}
    ELSE LET shorter == Strings(alphabet, n - 1) IN
         shorter \cup {Append(s, c) : s \in {t \in shorter : Len(t) = n - 1}, c \in alphabet}

\* ------------------------------------------------------------- digit.rs

\* the general category of every assigned code point, as maximal runs
\* <<first, last, category>> in ascending order: the data behind
\* icu::properties::maps::general_category(), which for the icu 1.x API
\* the code calls are those of Unicode 15.1; a code point in no run is
\* Unassigned
GeneralCategoryRuns ==
    <<
       <<0, 31, "Control">>, <<32, 32, "SpaceSeparator">>, <<33, 35, "OtherPunctuation">>,
       <<36, 36, "CurrencySymbol">>, <<37, 39, "OtherPunctuation">>, <<40, 40, "OpenPunctuation">>,
       <<41, 41, "ClosePunctuation">>, <<42, 42, "OtherPunctuation">>, <<43, 43, "MathSymbol">>,
       <<44, 44, "OtherPunctuation">>, <<45, 45, "DashPunctuation">>, <<46, 47, "OtherPunctuation">>,
       <<48, 57, "DecimalNumber">>, <<58, 59, "OtherPunctuation">>, <<60, 62, "MathSymbol">>,
       <<63, 64, "OtherPunctuation">>, <<65, 90, "UppercaseLetter">>, <<91, 91, "OpenPunctuation">>,
       <<92, 92, "OtherPunctuation">>, <<93, 93, "ClosePunctuation">>, <<94, 94, "ModifierSymbol">>,
       <<95, 95, "ConnectorPunctuation">>, <<96, 96, "ModifierSymbol">>, <<97, 122, "LowercaseLetter">>,
       <<123, 123, "OpenPunctuation">>, <<124, 124, "MathSymbol">>, <<125, 125, "ClosePunctuation">>,
       <<126, 126, "MathSymbol">>, <<127, 159, "Control">>, <<160, 160, "SpaceSeparator">>,
       <<161, 161, "OtherPunctuation">>, <<162, 165, "CurrencySymbol">>, <<166, 166, "OtherSymbol">>,
       <<167, 167, "OtherPunctuation">>, <<168, 168, "ModifierSymbol">>, <<169, 169, "OtherSymbol">>,
       <<170, 170, "OtherLetter">>, <<171, 171, "InitialPunctuation">>, <<172, 172, "MathSymbol">>,
       <<173, 173, "Format">>, <<174, 174, "OtherSymbol">>, <<175, 175, "ModifierSymbol">>,
       <<176, 176, "OtherSymbol">>, <<177, 177, "MathSymbol">>, <<178, 179, "OtherNumber">>,
       <<180, 180, "ModifierSymbol">>, <<181, 181, "LowercaseLetter">>, <<182, 183, "OtherPunctuation">>,
       <<184, 184, "ModifierSymbol">>, <<185, 185, "OtherNumber">>, <<186, 186, "OtherLetter">>,
       <<187, 187, "FinalPunctuation">>, <<188, 190, "OtherNumber">>, <<191, 191, "OtherPunctuation">>,
       <<192, 214, "UppercaseLetter">>, <<215, 215, "MathSymbol">>, <<216, 222, "UppercaseLetter">>,
       <<223, 246, "LowercaseLetter">>, <<247, 247, "MathSymbol">>, <<248, 255, "LowercaseLetter">>,
       <<256, 256, "UppercaseLetter">>, <<257, 257, "LowercaseLetter">>, <<258, 258, "UppercaseLetter">>,
       <<259, 259, "LowercaseLetter">>, <<260, 260, "UppercaseLetter">>, <<261, 261, "LowercaseLetter">>,
       <<262, 262, "UppercaseLetter">>, <<263, 263, "LowercaseLetter">>, <<264, 264, "UppercaseLetter">>,
       <<265, 265, "LowercaseLetter">>, <<266, 266, "UppercaseLetter">>, <<267, 267, "LowercaseLetter">>,
       <<268, 268, "UppercaseLetter">>, <<269, 269, "LowercaseLetter">>, <<270, 270, "UppercaseLetter">>,
       <<271, 271, "LowercaseLetter">>, <<272, 272, "UppercaseLetter">>, <<273, 273, "LowercaseLetter">>,
       <<274, 274, "UppercaseLetter">>, <<275, 275, "LowercaseLetter">>, <<276, 276, "UppercaseLetter">>,
       <<277, 277, "LowercaseLetter">>, <<278, 278, "UppercaseLetter">>, <<279, 279, "LowercaseLetter">>,
       <<280, 280, "UppercaseLetter">>, <<281, 281, "LowercaseLetter">>, <<282, 282, "UppercaseLetter">>,
       <<283, 283, "LowercaseLetter">>, <<284, 284, "UppercaseLetter">>, <<285, 285, "LowercaseLetter">>,
       <<286, 286, "UppercaseLetter">>, <<287, 287, "LowercaseLetter">>, <<288, 288, "UppercaseLetter">>,
       <<289, 289, "LowercaseLetter">>, <<290, 290, "UppercaseLetter">>, <<291, 291, "LowercaseLetter">>,
       <<292, 292, "UppercaseLetter">>, <<293, 293, "LowercaseLetter">>, <<294, 294, "UppercaseLetter">>,
       <<295, 295, "LowercaseLetter">>, <<296, 296, "UppercaseLetter">>, <<297, 297, "LowercaseLetter">>,
       <<298, 298, "UppercaseLetter">>, <<299, 299, "LowercaseLetter">>, <<300, 300, "UppercaseLetter">>,
       <<301, 301, "LowercaseLetter">>, <<302, 302, "UppercaseLetter">>, <<303, 303, "LowercaseLetter">>,
       <<304, 304, "UppercaseLetter">>, <<305, 305, "LowercaseLetter">>, <<306, 306, "UppercaseLetter">>,
       <<307, 307, "LowercaseLetter">>, <<308, 308, "UppercaseLetter">>, <<309, 309, "LowercaseLetter">>,
       <<310, 310, "UppercaseLetter">>, <<311, 312, "LowercaseLetter">>, <<313, 313, "UppercaseLetter">>,
       <<314, 314, "LowercaseLetter">>, <<315, 315, "UppercaseLetter">>, <<316, 316, "LowercaseLetter">>,
       <<317, 317, "UppercaseLetter">>, <<318, 318, "LowercaseLetter">>, <<319, 319, "UppercaseLetter">>,
       <<320, 320, "LowercaseLetter">>, <<321, 321, "UppercaseLetter">>, <<322, 322, "LowercaseLetter">>,
       <<323, 323, "UppercaseLetter">>, <<324, 324, "LowercaseLetter">>, <<325, 325, "UppercaseLetter">>,
       <<326, 326, "LowercaseLetter">>, <<327, 327, "UppercaseLetter">>, <<328, 329, "LowercaseLetter">>,
       <<330, 330, "UppercaseLetter">>, <<331, 331, "LowercaseLetter">>, <<332, 332, "UppercaseLetter">>,
       <<333, 333, "LowercaseLetter">>, <<334, 334, "UppercaseLetter">>, <<335, 335, "LowercaseLetter">>,
       <<336, 336, "UppercaseLetter">>, <<337, 337, "LowercaseLetter">>, <<338, 338, "UppercaseLetter">>,
       <<339, 339, "LowercaseLetter">>, <<340, 340, "UppercaseLetter">>, <<341, 341, "LowercaseLetter">>,
       <<342, 342, "UppercaseLetter">>, <<343, 343, "LowercaseLetter">>, <<344, 344, "UppercaseLetter">>,
       <<345, 345, "LowercaseLetter">>, <<346, 346, "UppercaseLetter">>, <<347, 347, "LowercaseLetter">>,
       <<348, 348, "UppercaseLetter">>, <<349, 349, "LowercaseLetter">>, <<350, 350, "UppercaseLetter">>,
       <<351, 351, "LowercaseLetter">>, <<352, 352, "UppercaseLetter">>, <<353, 353, "LowercaseLetter">>,
       <<354, 354, "UppercaseLetter">>, <<355, 355, "LowercaseLetter">>, <<356, 356, "UppercaseLetter">>,
       <<357, 357, "LowercaseLetter">>, <<358, 358, "UppercaseLetter">>, <<359, 359, "LowercaseLetter">>,
       <<360, 360, "UppercaseLetter">>, <<361, 361, "LowercaseLetter">>, <<362, 362, "UppercaseLetter">>,
       <<363, 363, "LowercaseLetter">>, <<364, 364, "UppercaseLetter">>, <<365, 365, "LowercaseLetter">>,
       <<366, 366, "UppercaseLetter">>, <<367, 367, "LowercaseLetter">>, <<368, 368, "UppercaseLetter">>,
       <<369, 369, "LowercaseLetter">>, <<370, 370, "UppercaseLetter">>, <<371, 371, "LowercaseLetter">>,
       <<372, 372, "UppercaseLetter">>, <<373, 373, "LowercaseLetter">>, <<374, 374, "UppercaseLetter">>,
       <<375, 375, "LowercaseLetter">>, <<376, 377, "UppercaseLetter">>, <<378, 378, "LowercaseLetter">>,
       <<379, 379, "UppercaseLetter">>, <<380, 380, "LowercaseLetter">>, <<381, 381, "UppercaseLetter">>,
       <<382, 384, "LowercaseLetter">>, <<385, 386, "UppercaseLetter">>, <<387, 387, "LowercaseLetter">>,
       <<388, 388, "UppercaseLetter">>, <<389, 389, "LowercaseLetter">>, <<390, 391, "UppercaseLetter">>,
       <<392, 392, "LowercaseLetter">>, <<393, 395, "UppercaseLetter">>, <<396, 397, "LowercaseLetter">>,
       <<398, 401, "UppercaseLetter">>, <<402, 402, "LowercaseLetter">>, <<403, 404, "UppercaseLetter">>,
       <<405, 405, "LowercaseLetter">>, <<406, 408, "UppercaseLetter">>, <<409, 411, "LowercaseLetter">>,
       <<412, 413, "UppercaseLetter">>, <<414, 414, "LowercaseLetter">>, <<415, 416, "UppercaseLetter">>,
       <<417, 417, "LowercaseLetter">>, <<418, 418, "UppercaseLetter">>, <<419, 419, "LowercaseLetter">>,
       <<420, 420, "UppercaseLetter">>, <<421, 421, "LowercaseLetter">>, <<422, 423, "UppercaseLetter">>,
       <<424, 424, "LowercaseLetter">>, <<425, 425, "UppercaseLetter">>, <<426, 427, "LowercaseLetter">>,
       <<428, 428, "UppercaseLetter">>, <<429, 429, "LowercaseLetter">>, <<430, 431, "UppercaseLetter">>,
       <<432, 432, "LowercaseLetter">>, <<433, 435, "UppercaseLetter">>, <<436, 436, "LowercaseLetter">>,
       <<437, 437, "UppercaseLetter">>, <<438, 438, "LowercaseLetter">>, <<439, 440, "UppercaseLetter">>,
       <<441, 442, "LowercaseLetter">>, <<443, 443, "OtherLetter">>, <<444, 444, "UppercaseLetter">>,
       <<445, 447, "LowercaseLetter">>, <<448, 451, "OtherLetter">>, <<452, 452, "UppercaseLetter">>,
       <<453, 453, "TitlecaseLetter">>, <<454, 454, "LowercaseLetter">>, <<455, 455, "UppercaseLetter">>,
       <<456, 456, "TitlecaseLetter">>, <<457, 457, "LowercaseLetter">>, <<458, 458, "UppercaseLetter">>,
       <<459, 459, "TitlecaseLetter">>, <<460, 460, "LowercaseLetter">>, <<461, 461, "UppercaseLetter">>,
       <<462, 462, "LowercaseLetter">>, <<463, 463, "UppercaseLetter">>, <<464, 464, "LowercaseLetter">>,
       <<465, 465, "UppercaseLetter">>, <<466, 466, "LowercaseLetter">>, <<467, 467, "UppercaseLetter">>,
       <<468, 468, "LowercaseLetter">>, <<469, 469, "UppercaseLetter">>, <<470, 470, "LowercaseLetter">>,
       <<471, 471, "UppercaseLetter">>, <<472, 472, "LowercaseLetter">>, <<473, 473, "UppercaseLetter">>,
       <<474, 474, "LowercaseLetter">>, <<475, 475, "UppercaseLetter">>, <<476, 477, "LowercaseLetter">>,
       <<478, 478, "UppercaseLetter">>, <<479, 479, "LowercaseLetter">>, <<480, 480, "UppercaseLetter">>,
       <<481, 481, "LowercaseLetter">>, <<482, 482, "UppercaseLetter">>, <<483, 483, "LowercaseLetter">>,
       <<484, 484, "UppercaseLetter">>, <<485, 485, "LowercaseLetter">>, <<486, 486, "UppercaseLetter">>,
       <<487, 487, "LowercaseLetter">>, <<488, 488, "UppercaseLetter">>, <<489, 489, "LowercaseLetter">>,
       <<490, 490, "UppercaseLetter">>, <<491, 491, "LowercaseLetter">>, <<492, 492, "UppercaseLetter">>,
       <<493, 493, "LowercaseLetter">>, <<494, 494, "UppercaseLetter">>, <<495, 496, "LowercaseLetter">>,
       <<497, 497, "UppercaseLetter">>, <<498, 498, "TitlecaseLetter">>, <<499, 499, "LowercaseLetter">>,
       <<500, 500, "UppercaseLetter">>, <<501, 501, "LowercaseLetter">>, <<502, 504, "UppercaseLetter">>,
       <<505, 505, "LowercaseLetter">>, <<506, 506, "UppercaseLetter">>, <<507, 507, "LowercaseLetter">>,
       <<508, 508, "UppercaseLetter">>, <<509, 509, "LowercaseLetter">>, <<510, 510, "UppercaseLetter">>,
       <<511, 511, "LowercaseLetter">>, <<512, 512, "UppercaseLetter">>, <<513, 513, "LowercaseLetter">>,
       <<514, 514, "UppercaseLetter">>, <<515, 515, "LowercaseLetter">>, <<516, 516, "UppercaseLetter">>,
       <<517, 517, "LowercaseLetter">>, <<518, 518, "UppercaseLetter">>, <<519, 519, "LowercaseLetter">>,
       <<520, 520, "UppercaseLetter">>, <<521, 521, "LowercaseLetter">>, <<522, 522, "UppercaseLetter">>,
       <<523, 523, "LowercaseLetter">>, <<524, 524, "UppercaseLetter">>, <<525, 525, "LowercaseLetter">>,
       <<526, 526, "UppercaseLetter">>, <<527, 527, "LowercaseLetter">>, <<528, 528, "UppercaseLetter">>,
       <<529, 529, "LowercaseLetter">>, <<530, 530, "UppercaseLetter">>, <<531, 531, "LowercaseLetter">>,
       <<532, 532, "UppercaseLetter">>, <<533, 533, "LowercaseLetter">>, <<534, 534, "UppercaseLetter">>,
       <<535, 535, "LowercaseLetter">>, <<536, 536, "UppercaseLetter">>, <<537, 537, "LowercaseLetter">>,
       <<538, 538, "UppercaseLetter">>, <<539, 539, "LowercaseLetter">>, <<540, 540, "UppercaseLetter">>,
       <<541, 541, "LowercaseLetter">>, <<542, 542, "UppercaseLetter">>, <<543, 543, "LowercaseLetter">>,
       <<544, 544, "UppercaseLetter">>, <<545, 545, "LowercaseLetter">>, <<546, 546, "UppercaseLetter">>,
       <<547, 547, "LowercaseLetter">>, <<548, 548, "UppercaseLetter">>, <<549, 549, "LowercaseLetter">>,
       <<550, 550, "UppercaseLetter">>, <<551, 551, "LowercaseLetter">>, <<552, 552, "UppercaseLetter">>,
       <<553, 553, "LowercaseLetter">>, <<554, 554, "UppercaseLetter">>, <<555, 555, "LowercaseLetter">>,
       <<556, 556, "UppercaseLetter">>, <<557, 557, "LowercaseLetter">>, <<558, 558, "UppercaseLetter">>,
       <<559, 559, "LowercaseLetter">>, <<560, 560, "UppercaseLetter">>, <<561, 561, "LowercaseLetter">>,
       <<562, 562, "UppercaseLetter">>, <<563, 569, "LowercaseLetter">>, <<570, 571, "UppercaseLetter">>,
       <<572, 572, "LowercaseLetter">>, <<573, 574, "UppercaseLetter">>, <<575, 576, "LowercaseLetter">>,
       <<577, 577, "UppercaseLetter">>, <<578, 578, "LowercaseLetter">>, <<579, 582, "UppercaseLetter">>,
       <<583, 583, "LowercaseLetter">>, <<584, 584, "UppercaseLetter">>, <<585, 585, "LowercaseLetter">>,
       <<586, 586, "UppercaseLetter">>, <<587, 587, "LowercaseLetter">>, <<588, 588, "UppercaseLetter">>,
       <<589, 589, "LowercaseLetter">>, <<590, 590, "UppercaseLetter">>, <<591, 659, "LowercaseLetter">>,
       <<660, 660, "OtherLetter">>, <<661, 687, "LowercaseLetter">>, <<688, 705, "ModifierLetter">>,
       <<706, 709, "ModifierSymbol">>, <<710, 721, "ModifierLetter">>, <<722, 735, "ModifierSymbol">>,
       <<736, 740, "ModifierLetter">>, <<741, 747, "ModifierSymbol">>, <<748, 748, "ModifierLetter">>,
       <<749, 749, "ModifierSymbol">>, <<750, 750, "ModifierLetter">>, <<751, 767, "ModifierSymbol">>,
       <<768, 879, "NonspacingMark">>, <<880, 880, "UppercaseLetter">>, <<881, 881, "LowercaseLetter">>,
       <<882, 882, "UppercaseLetter">>, <<883, 883, "LowercaseLetter">>, <<884, 884, "ModifierLetter">>,
       <<885, 885, "ModifierSymbol">>, <<886, 886, "UppercaseLetter">>, <<887, 887, "LowercaseLetter">>,
       <<890, 890, "ModifierLetter">>, <<891, 893, "LowercaseLetter">>, <<894, 894, "OtherPunctuation">>,
       <<895, 895, "UppercaseLetter">>, <<900, 901, "ModifierSymbol">>, <<902, 902, "UppercaseLetter">>,
       <<903, 903, "OtherPunctuation">>, <<904, 906, "UppercaseLetter">>, <<908, 908, "UppercaseLetter">>,
       <<910, 911, "UppercaseLetter">>, <<912, 912, "LowercaseLetter">>, <<913, 929, "UppercaseLetter">>,
       <<931, 939, "UppercaseLetter">>, <<940, 974, "LowercaseLetter">>, <<975, 975, "UppercaseLetter">>,
       <<976, 977, "LowercaseLetter">>, <<978, 980, "UppercaseLetter">>, <<981, 983, "LowercaseLetter">>,
       <<984, 984, "UppercaseLetter">>, <<985, 985, "LowercaseLetter">>, <<986, 986, "UppercaseLetter">>,
       <<987, 987, "LowercaseLetter">>, <<988, 988, "UppercaseLetter">>, <<989, 989, "LowercaseLetter">>,
       <<990, 990, "UppercaseLetter">>, <<991, 991, "LowercaseLetter">>, <<992, 992, "UppercaseLetter">>,
       <<993, 993, "LowercaseLetter">>, <<994, 994, "UppercaseLetter">>, <<995, 995, "LowercaseLetter">>,
       <<996, 996, "UppercaseLetter">>, <<997, 997, "LowercaseLetter">>, <<998, 998, "UppercaseLetter">>,
       <<999, 999, "LowercaseLetter">>, <<1000, 1000, "UppercaseLetter">>, <<1001, 1001, "LowercaseLetter">>,
       <<1002, 1002, "UppercaseLetter">>, <<1003, 1003, "LowercaseLetter">>, <<1004, 1004, "UppercaseLetter">>,
       <<1005, 1005, "LowercaseLetter">>, <<1006, 1006, "UppercaseLetter">>, <<1007, 1011, "LowercaseLetter">>,
       <<1012, 1012, "UppercaseLetter">>, <<1013, 1013, "LowercaseLetter">>, <<1014, 1014, "MathSymbol">>,
       <<1015, 1015, "UppercaseLetter">>, <<1016, 1016, "LowercaseLetter">>, <<1017, 1018, "UppercaseLetter">>,
       <<1019, 1020, "LowercaseLetter">>, <<1021, 1071, "UppercaseLetter">>, <<1072, 1119, "LowercaseLetter">>,
       <<1120, 1120, "UppercaseLetter">>, <<1121, 1121, "LowercaseLetter">>, <<1122, 1122, "UppercaseLetter">>,
       <<1123, 1123, "LowercaseLetter">>, <<1124, 1124, "UppercaseLetter">>, <<1125, 1125, "LowercaseLetter">>,
       <<1126, 1126, "UppercaseLetter">>, <<1127, 1127, "LowercaseLetter">>, <<1128, 1128, "UppercaseLetter">>,
       <<1129, 1129, "LowercaseLetter">>, <<1130, 1130, "UppercaseLetter">>, <<1131, 1131, "LowercaseLetter">>,
       <<1132, 1132, "UppercaseLetter">>, <<1133, 1133, "LowercaseLetter">>, <<1134, 1134, "UppercaseLetter">>,
       <<1135, 1135, "LowercaseLetter">>, <<1136, 1136, "UppercaseLetter">>, <<1137, 1137, "LowercaseLetter">>,
       <<1138, 1138, "UppercaseLetter">>, <<1139, 1139, "LowercaseLetter">>, <<1140, 1140, "UppercaseLetter">>,
       <<1141, 1141, "LowercaseLetter">>, <<1142, 1142, "UppercaseLetter">>, <<1143, 1143, "LowercaseLetter">>,
       <<1144, 1144, "UppercaseLetter">>, <<1145, 1145, "LowercaseLetter">>, <<1146, 1146, "UppercaseLetter">>,
       <<1147, 1147, "LowercaseLetter">>, <<1148, 1148, "UppercaseLetter">>, <<1149, 1149, "LowercaseLetter">>,
       <<1150, 1150, "UppercaseLetter">>, <<1151, 1151, "LowercaseLetter">>, <<1152, 1152, "UppercaseLetter">>,
       <<1153, 1153, "LowercaseLetter">>, <<1154, 1154, "OtherSymbol">>, <<1155, 1159, "NonspacingMark">>,
       <<1160, 1161, "EnclosingMark">>, <<1162, 1162, "UppercaseLetter">>, <<1163, 1163, "LowercaseLetter">>,
       <<1164, 1164, "UppercaseLetter">>, <<1165, 1165, "LowercaseLetter">>, <<1166, 1166, "UppercaseLetter">>,
       <<1167, 1167, "LowercaseLetter">>, <<1168, 1168, "UppercaseLetter">>, <<1169, 1169, "LowercaseLetter">>,
       <<1170, 1170, "UppercaseLetter">>, <<1171, 1171, "LowercaseLetter">>, <<1172, 1172, "UppercaseLetter">>,
       <<1173, 1173, "LowercaseLetter">>, <<1174, 1174, "UppercaseLetter">>, <<1175, 1175, "LowercaseLetter">>,
       <<1176, 1176, "UppercaseLetter">>, <<1177, 1177, "LowercaseLetter">>, <<1178, 1178, "UppercaseLetter">>,
       <<1179, 1179, "LowercaseLetter">>, <<1180, 1180, "UppercaseLetter">>, <<1181, 1181, "LowercaseLetter">>,
       <<1182, 1182, "UppercaseLetter">>, <<1183, 1183, "LowercaseLetter">>, <<1184, 1184, "UppercaseLetter">>,
       <<1185, 1185, "LowercaseLetter">>, <<1186, 1186, "UppercaseLetter">>, <<1187, 1187, "LowercaseLetter">>,
       <<1188, 1188, "UppercaseLetter">>, <<1189, 1189, "LowercaseLetter">>, <<1190, 1190, "UppercaseLetter">>,
       <<1191, 1191, "LowercaseLetter">>, <<1192, 1192, "UppercaseLetter">>, <<1193, 1193, "LowercaseLetter">>,
       <<1194, 1194, "UppercaseLetter">>, <<1195, 1195, "LowercaseLetter">>, <<1196, 1196, "UppercaseLetter">>,
       <<1197, 1197, "LowercaseLetter">>, <<1198, 1198, "UppercaseLetter">>, <<1199, 1199, "LowercaseLetter">>,
       <<1200, 1200, "UppercaseLetter">>, <<1201, 1201, "LowercaseLetter">>, <<1202, 1202, "UppercaseLetter">>,
       <<1203, 1203, "LowercaseLetter">>, <<1204, 1204, "UppercaseLetter">>, <<1205, 1205, "LowercaseLetter">>,
       <<1206, 1206, "UppercaseLetter">>, <<1207, 1207, "LowercaseLetter">>, <<1208, 1208, "UppercaseLetter">>,
       <<1209, 1209, "LowercaseLetter">>, <<1210, 1210, "UppercaseLetter">>, <<1211, 1211, "LowercaseLetter">>,
       <<1212, 1212, "UppercaseLetter">>, <<1213, 1213, "LowercaseLetter">>, <<1214, 1214, "UppercaseLetter">>,
       <<1215, 1215, "LowercaseLetter">>, <<1216, 1217, "UppercaseLetter">>, <<1218, 1218, "LowercaseLetter">>,
       <<1219, 1219, "UppercaseLetter">>, <<1220, 1220, "LowercaseLetter">>, <<1221, 1221, "UppercaseLetter">>,
       <<1222, 1222, "LowercaseLetter">>, <<1223, 1223, "UppercaseLetter">>, <<1224, 1224, "LowercaseLetter">>,
       <<1225, 1225, "UppercaseLetter">>, <<1226, 1226, "LowercaseLetter">>, <<1227, 1227, "UppercaseLetter">>,
       <<1228, 1228, "LowercaseLetter">>, <<1229, 1229, "UppercaseLetter">>, <<1230, 1231, "LowercaseLetter">>,
       <<1232, 1232, "UppercaseLetter">>, <<1233, 1233, "LowercaseLetter">>, <<1234, 1234, "UppercaseLetter">>,
       <<1235, 1235, "LowercaseLetter">>, <<1236, 1236, "UppercaseLetter">>, <<1237, 1237, "LowercaseLetter">>,
       <<1238, 1238, "UppercaseLetter">>, <<1239, 1239, "LowercaseLetter">>, <<1240, 1240, "UppercaseLetter">>,
       <<1241, 1241, "LowercaseLetter">>, <<1242, 1242, "UppercaseLetter">>, <<1243, 1243, "LowercaseLetter">>,
       <<1244, 1244, "UppercaseLetter">>, <<1245, 1245, "LowercaseLetter">>, <<1246, 1246, "UppercaseLetter">>,
       <<1247, 1247, "LowercaseLetter">>, <<1248, 1248, "UppercaseLetter">>, <<1249, 1249, "LowercaseLetter">>,
       <<1250, 1250, "UppercaseLetter">>, <<1251, 1251, "LowercaseLetter">>, <<1252, 1252, "UppercaseLetter">>,
       <<1253, 1253, "LowercaseLetter">>, <<1254, 1254, "UppercaseLetter">>, <<1255, 1255, "LowercaseLetter">>,
       <<1256, 1256, "UppercaseLetter">>, <<1257, 1257, "LowercaseLetter">>, <<1258, 1258, "UppercaseLetter">>,
       <<1259, 1259, "LowercaseLetter">>, <<1260, 1260, "UppercaseLetter">>, <<1261, 1261, "LowercaseLetter">>,
       <<1262, 1262, "UppercaseLetter">>, <<1263, 1263, "LowercaseLetter">>, <<1264, 1264, "UppercaseLetter">>,
       <<1265, 1265, "LowercaseLetter">>, <<1266, 1266, "UppercaseLetter">>, <<1267, 1267, "LowercaseLetter">>,
       <<1268, 1268, "UppercaseLetter">>, <<1269, 1269, "LowercaseLetter">>, <<1270, 1270, "UppercaseLetter">>,
       <<1271, 1271, "LowercaseLetter">>, <<1272, 1272, "UppercaseLetter">>, <<1273, 1273, "LowercaseLetter">>,
       <<1274, 1274, "UppercaseLetter">>, <<1275, 1275, "LowercaseLetter">>, <<1276, 1276, "UppercaseLetter">>,
       <<1277, 1277, "LowercaseLetter">>, <<1278, 1278, "UppercaseLetter">>, <<1279, 1279, "LowercaseLetter">>,
       <<1280, 1280, "UppercaseLetter">>, <<1281, 1281, "LowercaseLetter">>, <<1282, 1282, "UppercaseLetter">>,
       <<1283, 1283, "LowercaseLetter">>, <<1284, 1284, "UppercaseLetter">>, <<1285, 1285, "LowercaseLetter">>,
       <<1286, 1286, "UppercaseLetter">>, <<1287, 1287, "LowercaseLetter">>, <<1288, 1288, "UppercaseLetter">>,
       <<1289, 1289, "LowercaseLetter">>, <<1290, 1290, "UppercaseLetter">>, <<1291, 1291, "LowercaseLetter">>,
       <<1292, 1292, "UppercaseLetter">>, <<1293, 1293, "LowercaseLetter">>, <<1294, 1294, "UppercaseLetter">>,
       <<1295, 1295, "LowercaseLetter">>, <<1296, 1296, "UppercaseLetter">>, <<1297, 1297, "LowercaseLetter">>,
       <<1298, 1298, "UppercaseLetter">>, <<1299, 1299, "LowercaseLetter">>, <<1300, 1300, "UppercaseLetter">>,
       <<1301, 1301, "LowercaseLetter">>, <<1302, 1302, "UppercaseLetter">>, <<1303, 1303, "LowercaseLetter">>,
       <<1304, 1304, "UppercaseLetter">>, <<1305, 1305, "LowercaseLetter">>, <<1306, 1306, "UppercaseLetter">>,
       <<1307, 1307, "LowercaseLetter">>, <<1308, 1308, "UppercaseLetter">>, <<1309, 1309, "LowercaseLetter">>,
       <<1310, 1310, "UppercaseLetter">>, <<1311, 1311, "LowercaseLetter">>, <<1312, 1312, "UppercaseLetter">>,
       <<1313, 1313, "LowercaseLetter">>, <<1314, 1314, "UppercaseLetter">>, <<1315, 1315, "LowercaseLetter">>,
       <<1316, 1316, "UppercaseLetter">>, <<1317, 1317, "LowercaseLetter">>, <<1318, 1318, "UppercaseLetter">>,
       <<1319, 1319, "LowercaseLetter">>, <<1320, 1320, "UppercaseLetter">>, <<1321, 1321, "LowercaseLetter">>,
       <<1322, 1322, "UppercaseLetter">>, <<1323, 1323, "LowercaseLetter">>, <<1324, 1324, "UppercaseLetter">>,
       <<1325, 1325, "LowercaseLetter">>, <<1326, 1326, "UppercaseLetter">>, <<1327, 1327, "LowercaseLetter">>,
       <<1329, 1366, "UppercaseLetter">>, <<1369, 1369, "ModifierLetter">>, <<1370, 1375, "OtherPunctuation">>,
       <<1376, 1416, "LowercaseLetter">>, <<1417, 1417, "OtherPunctuation">>, <<1418, 1418, "DashPunctuation">>,
       <<1421, 1422, "OtherSymbol">>, <<1423, 1423, "CurrencySymbol">>, <<1425, 1469, "NonspacingMark">>,
       <<1470, 1470, "DashPunctuation">>, <<1471, 1471, "NonspacingMark">>, <<1472, 1472, "OtherPunctuation">>,
       <<1473, 1474, "NonspacingMark">>, <<1475, 1475, "OtherPunctuation">>, <<1476, 1477, "NonspacingMark">>,
       <<1478, 1478, "OtherPunctuation">>, <<1479, 1479, "NonspacingMark">>, <<1488, 1514, "OtherLetter">>,
       <<1519, 1522, "OtherLetter">>, <<1523, 1524, "OtherPunctuation">>, <<1536, 1541, "Format">>,
       <<1542, 1544, "MathSymbol">>, <<1545, 1546, "OtherPunctuation">>, <<1547, 1547, "CurrencySymbol">>,
       <<1548, 1549, "OtherPunctuation">>, <<1550, 1551, "OtherSymbol">>, <<1552, 1562, "NonspacingMark">>,
       <<1563, 1563, "OtherPunctuation">>, <<1564, 1564, "Format">>, <<1565, 1567, "OtherPunctuation">>,
       <<1568, 1599, "OtherLetter">>, <<1600, 1600, "ModifierLetter">>, <<1601, 1610, "OtherLetter">>,
       <<1611, 1631, "NonspacingMark">>, <<1632, 1641, "DecimalNumber">>, <<1642, 1645, "OtherPunctuation">>,
       <<1646, 1647, "OtherLetter">>, <<1648, 1648, "NonspacingMark">>, <<1649, 1747, "OtherLetter">>,
       <<1748, 1748, "OtherPunctuation">>, <<1749, 1749, "OtherLetter">>, <<1750, 1756, "NonspacingMark">>,
       <<1757, 1757, "Format">>, <<1758, 1758, "OtherSymbol">>, <<1759, 1764, "NonspacingMark">>,
       <<1765, 1766, "ModifierLetter">>, <<1767, 1768, "NonspacingMark">>, <<1769, 1769, "OtherSymbol">>,
       <<1770, 1773, "NonspacingMark">>, <<1774, 1775, "OtherLetter">>, <<1776, 1785, "DecimalNumber">>,
       <<1786, 1788, "OtherLetter">>, <<1789, 1790, "OtherSymbol">>, <<1791, 1791, "OtherLetter">>,
       <<1792, 1805, "OtherPunctuation">>, <<1807, 1807, "Format">>, <<1808, 1808, "OtherLetter">>,
       <<1809, 1809, "NonspacingMark">>, <<1810, 1839, "OtherLetter">>, <<1840, 1866, "NonspacingMark">>,
       <<1869, 1957, "OtherLetter">>, <<1958, 1968, "NonspacingMark">>, <<1969, 1969, "OtherLetter">>,
       <<1984, 1993, "DecimalNumber">>, <<1994, 2026, "OtherLetter">>, <<2027, 2035, "NonspacingMark">>,
       <<2036, 2037, "ModifierLetter">>, <<2038, 2038, "OtherSymbol">>, <<2039, 2041, "OtherPunctuation">>,
       <<2042, 2042, "ModifierLetter">>, <<2045, 2045, "NonspacingMark">>, <<2046, 2047, "CurrencySymbol">>,
       <<2048, 2069, "OtherLetter">>, <<2070, 2073, "NonspacingMark">>, <<2074, 2074, "ModifierLetter">>,
       <<2075, 2083, "NonspacingMark">>, <<2084, 2084, "ModifierLetter">>, <<2085, 2087, "NonspacingMark">>,
       <<2088, 2088, "ModifierLetter">>, <<2089, 2093, "NonspacingMark">>, <<2096, 2110, "OtherPunctuation">>,
       <<2112, 2136, "OtherLetter">>, <<2137, 2139, "NonspacingMark">>, <<2142, 2142, "OtherPunctuation">>,
       <<2144, 2154, "OtherLetter">>, <<2160, 2183, "OtherLetter">>, <<2184, 2184, "ModifierSymbol">>,
       <<2185, 2190, "OtherLetter">>, <<2192, 2193, "Format">>, <<2200, 2207, "NonspacingMark">>,
       <<2208, 2248, "OtherLetter">>, <<2249, 2249, "ModifierLetter">>, <<2250, 2273, "NonspacingMark">>,
       <<2274, 2274, "Format">>, <<2275, 2306, "NonspacingMark">>, <<2307, 2307, "SpacingMark">>,
       <<2308, 2361, "OtherLetter">>, <<2362, 2362, "NonspacingMark">>, <<2363, 2363, "SpacingMark">>,
       <<2364, 2364, "NonspacingMark">>, <<2365, 2365, "OtherLetter">>, <<2366, 2368, "SpacingMark">>,
       <<2369, 2376, "NonspacingMark">>, <<2377, 2380, "SpacingMark">>, <<2381, 2381, "NonspacingMark">>,
       <<2382, 2383, "SpacingMark">>, <<2384, 2384, "OtherLetter">>, <<2385, 2391, "NonspacingMark">>,
       <<2392, 2401, "OtherLetter">>, <<2402, 2403, "NonspacingMark">>, <<2404, 2405, "OtherPunctuation">>,
       <<2406, 2415, "DecimalNumber">>, <<2416, 2416, "OtherPunctuation">>, <<2417, 2417, "ModifierLetter">>,
       <<2418, 2432, "OtherLetter">>, <<2433, 2433, "NonspacingMark">>, <<2434, 2435, "SpacingMark">>,
       <<2437, 2444, "OtherLetter">>, <<2447, 2448, "OtherLetter">>, <<2451, 2472, "OtherLetter">>,
       <<2474, 2480, "OtherLetter">>, <<2482, 2482, "OtherLetter">>, <<2486, 2489, "OtherLetter">>,
       <<2492, 2492, "NonspacingMark">>, <<2493, 2493, "OtherLetter">>, <<2494, 2496, "SpacingMark">>,
       <<2497, 2500, "NonspacingMark">>, <<2503, 2504, "SpacingMark">>, <<2507, 2508, "SpacingMark">>,
       <<2509, 2509, "NonspacingMark">>, <<2510, 2510, "OtherLetter">>, <<2519, 2519, "SpacingMark">>,
       <<2524, 2525, "OtherLetter">>, <<2527, 2529, "OtherLetter">>, <<2530, 2531, "NonspacingMark">>,
       <<2534, 2543, "DecimalNumber">>, <<2544, 2545, "OtherLetter">>, <<2546, 2547, "CurrencySymbol">>,
       <<2548, 2553, "OtherNumber">>, <<2554, 2554, "OtherSymbol">>, <<2555, 2555, "CurrencySymbol">>,
       <<2556, 2556, "OtherLetter">>, <<2557, 2557, "OtherPunctuation">>, <<2558, 2558, "NonspacingMark">>,
       <<2561, 2562, "NonspacingMark">>, <<2563, 2563, "SpacingMark">>, <<2565, 2570, "OtherLetter">>,
       <<2575, 2576, "OtherLetter">>, <<2579, 2600, "OtherLetter">>, <<2602, 2608, "OtherLetter">>,
       <<2610, 2611, "OtherLetter">>, <<2613, 2614, "OtherLetter">>, <<2616, 2617, "OtherLetter">>,
       <<2620, 2620, "NonspacingMark">>, <<2622, 2624, "SpacingMark">>, <<2625, 2626, "NonspacingMark">>,
       <<2631, 2632, "NonspacingMark">>, <<2635, 2637, "NonspacingMark">>, <<2641, 2641, "NonspacingMark">>,
       <<2649, 2652, "OtherLetter">>, <<2654, 2654, "OtherLetter">>, <<2662, 2671, "DecimalNumber">>,
       <<2672, 2673, "NonspacingMark">>, <<2674, 2676, "OtherLetter">>, <<2677, 2677, "NonspacingMark">>,
       <<2678, 2678, "OtherPunctuation">>, <<2689, 2690, "NonspacingMark">>, <<2691, 2691, "SpacingMark">>,
       <<2693, 2701, "OtherLetter">>, <<2703, 2705, "OtherLetter">>, <<2707, 2728, "OtherLetter">>,
       <<2730, 2736, "OtherLetter">>, <<2738, 2739, "OtherLetter">>, <<2741, 2745, "OtherLetter">>,
       <<2748, 2748, "NonspacingMark">>, <<2749, 2749, "OtherLetter">>, <<2750, 2752, "SpacingMark">>,
       <<2753, 2757, "NonspacingMark">>, <<2759, 2760, "NonspacingMark">>, <<2761, 2761, "SpacingMark">>,
       <<2763, 2764, "SpacingMark">>, <<2765, 2765, "NonspacingMark">>, <<2768, 2768, "OtherLetter">>,
       <<2784, 2785, "OtherLetter">>, <<2786, 2787, "NonspacingMark">>, <<2790, 2799, "DecimalNumber">>,
       <<2800, 2800, "OtherPunctuation">>, <<2801, 2801, "CurrencySymbol">>, <<2809, 2809, "OtherLetter">>,
       <<2810, 2815, "NonspacingMark">>, <<2817, 2817, "NonspacingMark">>, <<2818, 2819, "SpacingMark">>,
       <<2821, 2828, "OtherLetter">>, <<2831, 2832, "OtherLetter">>, <<2835, 2856, "OtherLetter">>,
       <<2858, 2864, "OtherLetter">>, <<2866, 2867, "OtherLetter">>, <<2869, 2873, "OtherLetter">>,
       <<2876, 2876, "NonspacingMark">>, <<2877, 2877, "OtherLetter">>, <<2878, 2878, "SpacingMark">>,
       <<2879, 2879, "NonspacingMark">>, <<2880, 2880, "SpacingMark">>, <<2881, 2884, "NonspacingMark">>,
       <<2887, 2888, "SpacingMark">>, <<2891, 2892, "SpacingMark">>, <<2893, 2893, "NonspacingMark">>,
       <<2901, 2902, "NonspacingMark">>, <<2903, 2903, "SpacingMark">>, <<2908, 2909, "OtherLetter">>,
       <<2911, 2913, "OtherLetter">>, <<2914, 2915, "NonspacingMark">>, <<2918, 2927, "DecimalNumber">>,
       <<2928, 2928, "OtherSymbol">>, <<2929, 2929, "OtherLetter">>, <<2930, 2935, "OtherNumber">>,
       <<2946, 2946, "NonspacingMark">>, <<2947, 2947, "OtherLetter">>, <<2949, 2954, "OtherLetter">>,
       <<2958, 2960, "OtherLetter">>, <<2962, 2965, "OtherLetter">>, <<2969, 2970, "OtherLetter">>,
       <<2972, 2972, "OtherLetter">>, <<2974, 2975, "OtherLetter">>, <<2979, 2980, "OtherLetter">>,
       <<2984, 2986, "OtherLetter">>, <<2990, 3001, "OtherLetter">>, <<3006, 3007, "SpacingMark">>,
       <<3008, 3008, "NonspacingMark">>, <<3009, 3010, "SpacingMark">>, <<3014, 3016, "SpacingMark">>,
       <<3018, 3020, "SpacingMark">>, <<3021, 3021, "NonspacingMark">>, <<3024, 3024, "OtherLetter">>,
       <<3031, 3031, "SpacingMark">>, <<3046, 3055, "DecimalNumber">>, <<3056, 3058, "OtherNumber">>,
       <<3059, 3064, "OtherSymbol">>, <<3065, 3065, "CurrencySymbol">>, <<3066, 3066, "OtherSymbol">>,
       <<3072, 3072, "NonspacingMark">>, <<3073, 3075, "SpacingMark">>, <<3076, 3076, "NonspacingMark">>,
       <<3077, 3084, "OtherLetter">>, <<3086, 3088, "OtherLetter">>, <<3090, 3112, "OtherLetter">>,
       <<3114, 3129, "OtherLetter">>, <<3132, 3132, "NonspacingMark">>, <<3133, 3133, "OtherLetter">>,
       <<3134, 3136, "NonspacingMark">>, <<3137, 3140, "SpacingMark">>, <<3142, 3144, "NonspacingMark">>,
       <<3146, 3149, "NonspacingMark">>, <<3157, 3158, "NonspacingMark">>, <<3160, 3162, "OtherLetter">>,
       <<3165, 3165, "OtherLetter">>, <<3168, 3169, "OtherLetter">>, <<3170, 3171, "NonspacingMark">>,
       <<3174, 3183, "DecimalNumber">>, <<3191, 3191, "OtherPunctuation">>, <<3192, 3198, "OtherNumber">>,
       <<3199, 3199, "OtherSymbol">>, <<3200, 3200, "OtherLetter">>, <<3201, 3201, "NonspacingMark">>,
       <<3202, 3203, "SpacingMark">>, <<3204, 3204, "OtherPunctuation">>, <<3205, 3212, "OtherLetter">>,
       <<3214, 3216, "OtherLetter">>, <<3218, 3240, "OtherLetter">>, <<3242, 3251, "OtherLetter">>,
       <<3253, 3257, "OtherLetter">>, <<3260, 3260, "NonspacingMark">>, <<3261, 3261, "OtherLetter">>,
       <<3262, 3262, "SpacingMark">>, <<3263, 3263, "NonspacingMark">>, <<3264, 3268, "SpacingMark">>,
       <<3270, 3270, "NonspacingMark">>, <<3271, 3272, "SpacingMark">>, <<3274, 3275, "SpacingMark">>,
       <<3276, 3277, "NonspacingMark">>, <<3285, 3286, "SpacingMark">>, <<3293, 3294, "OtherLetter">>,
       <<3296, 3297, "OtherLetter">>, <<3298, 3299, "NonspacingMark">>, <<3302, 3311, "DecimalNumber">>,
       <<3313, 3314, "OtherLetter">>, <<3315, 3315, "SpacingMark">>, <<3328, 3329, "NonspacingMark">>,
       <<3330, 3331, "SpacingMark">>, <<3332, 3340, "OtherLetter">>, <<3342, 3344, "OtherLetter">>,
       <<3346, 3386, "OtherLetter">>, <<3387, 3388, "NonspacingMark">>, <<3389, 3389, "OtherLetter">>,
       <<3390, 3392, "SpacingMark">>, <<3393, 3396, "NonspacingMark">>, <<3398, 3400, "SpacingMark">>,
       <<3402, 3404, "SpacingMark">>, <<3405, 3405, "NonspacingMark">>, <<3406, 3406, "OtherLetter">>,
       <<3407, 3407, "OtherSymbol">>, <<3412, 3414, "OtherLetter">>, <<3415, 3415, "SpacingMark">>,
       <<3416, 3422, "OtherNumber">>, <<3423, 3425, "OtherLetter">>, <<3426, 3427, "NonspacingMark">>,
       <<3430, 3439, "DecimalNumber">>, <<3440, 3448, "OtherNumber">>, <<3449, 3449, "OtherSymbol">>,
       <<3450, 3455, "OtherLetter">>, <<3457, 3457, "NonspacingMark">>, <<3458, 3459, "SpacingMark">>,
       <<3461, 3478, "OtherLetter">>, <<3482, 3505, "OtherLetter">>, <<3507, 3515, "OtherLetter">>,
       <<3517, 3517, "OtherLetter">>, <<3520, 3526, "OtherLetter">>, <<3530, 3530, "NonspacingMark">>,
       <<3535, 3537, "SpacingMark">>, <<3538, 3540, "NonspacingMark">>, <<3542, 3542, "NonspacingMark">>,
       <<3544, 3551, "SpacingMark">>, <<3558, 3567, "DecimalNumber">>, <<3570, 3571, "SpacingMark">>,
       <<3572, 3572, "OtherPunctuation">>, <<3585, 3632, "OtherLetter">>, <<3633, 3633, "NonspacingMark">>,
       <<3634, 3635, "OtherLetter">>, <<3636, 3642, "NonspacingMark">>, <<3647, 3647, "CurrencySymbol">>,
       <<3648, 3653, "OtherLetter">>, <<3654, 3654, "ModifierLetter">>, <<3655, 3662, "NonspacingMark">>,
       <<3663, 3663, "OtherPunctuation">>, <<3664, 3673, "DecimalNumber">>, <<3674, 3675, "OtherPunctuation">>,
       <<3713, 3714, "OtherLetter">>, <<3716, 3716, "OtherLetter">>, <<3718, 3722, "OtherLetter">>,
       <<3724, 3747, "OtherLetter">>, <<3749, 3749, "OtherLetter">>, <<3751, 3760, "OtherLetter">>,
       <<3761, 3761, "NonspacingMark">>, <<3762, 3763, "OtherLetter">>, <<3764, 3772, "NonspacingMark">>,
       <<3773, 3773, "OtherLetter">>, <<3776, 3780, "OtherLetter">>, <<3782, 3782, "ModifierLetter">>,
       <<3784, 3790, "NonspacingMark">>, <<3792, 3801, "DecimalNumber">>, <<3804, 3807, "OtherLetter">>,
       <<3840, 3840, "OtherLetter">>, <<3841, 3843, "OtherSymbol">>, <<3844, 3858, "OtherPunctuation">>,
       <<3859, 3859, "OtherSymbol">>, <<3860, 3860, "OtherPunctuation">>, <<3861, 3863, "OtherSymbol">>,
       <<3864, 3865, "NonspacingMark">>, <<3866, 3871, "OtherSymbol">>, <<3872, 3881, "DecimalNumber">>,
       <<3882, 3891, "OtherNumber">>, <<3892, 3892, "OtherSymbol">>, <<3893, 3893, "NonspacingMark">>,
       <<3894, 3894, "OtherSymbol">>, <<3895, 3895, "NonspacingMark">>, <<3896, 3896, "OtherSymbol">>,
       <<3897, 3897, "NonspacingMark">>, <<3898, 3898, "OpenPunctuation">>, <<3899, 3899, "ClosePunctuation">>,
       <<3900, 3900, "OpenPunctuation">>, <<3901, 3901, "ClosePunctuation">>, <<3902, 3903, "SpacingMark">>,
       <<3904, 3911, "OtherLetter">>, <<3913, 3948, "OtherLetter">>, <<3953, 3966, "NonspacingMark">>,
       <<3967, 3967, "SpacingMark">>, <<3968, 3972, "NonspacingMark">>, <<3973, 3973, "OtherPunctuation">>,
       <<3974, 3975, "NonspacingMark">>, <<3976, 3980, "OtherLetter">>, <<3981, 3991, "NonspacingMark">>,
       <<3993, 4028, "NonspacingMark">>, <<4030, 4037, "OtherSymbol">>, <<4038, 4038, "NonspacingMark">>,
       <<4039, 4044, "OtherSymbol">>, <<4046, 4047, "OtherSymbol">>, <<4048, 4052, "OtherPunctuation">>,
       <<4053, 4056, "OtherSymbol">>, <<4057, 4058, "OtherPunctuation">>, <<4096, 4138, "OtherLetter">>,
       <<4139, 4140, "SpacingMark">>, <<4141, 4144, "NonspacingMark">>, <<4145, 4145, "SpacingMark">>,
       <<4146, 4151, "NonspacingMark">>, <<4152, 4152, "SpacingMark">>, <<4153, 4154, "NonspacingMark">>,
       <<4155, 4156, "SpacingMark">>, <<4157, 4158, "NonspacingMark">>, <<4159, 4159, "OtherLetter">>,
       <<4160, 4169, "DecimalNumber">>, <<4170, 4175, "OtherPunctuation">>, <<4176, 4181, "OtherLetter">>,
       <<4182, 4183, "SpacingMark">>, <<4184, 4185, "NonspacingMark">>, <<4186, 4189, "OtherLetter">>,
       <<4190, 4192, "NonspacingMark">>, <<4193, 4193, "OtherLetter">>, <<4194, 4196, "SpacingMark">>,
       <<4197, 4198, "OtherLetter">>, <<4199, 4205, "SpacingMark">>, <<4206, 4208, "OtherLetter">>,
       <<4209, 4212, "NonspacingMark">>, <<4213, 4225, "OtherLetter">>, <<4226, 4226, "NonspacingMark">>,
       <<4227, 4228, "SpacingMark">>, <<4229, 4230, "NonspacingMark">>, <<4231, 4236, "SpacingMark">>,
       <<4237, 4237, "NonspacingMark">>, <<4238, 4238, "OtherLetter">>, <<4239, 4239, "SpacingMark">>,
       <<4240, 4249, "DecimalNumber">>, <<4250, 4252, "SpacingMark">>, <<4253, 4253, "NonspacingMark">>,
       <<4254, 4255, "OtherSymbol">>, <<4256, 4293, "UppercaseLetter">>, <<4295, 4295, "UppercaseLetter">>,
       <<4301, 4301, "UppercaseLetter">>, <<4304, 4346, "LowercaseLetter">>, <<4347, 4347, "OtherPunctuation">>,
       <<4348, 4348, "ModifierLetter">>, <<4349, 4351, "LowercaseLetter">>, <<4352, 4680, "OtherLetter">>,
       <<4682, 4685, "OtherLetter">>, <<4688, 4694, "OtherLetter">>, <<4696, 4696, "OtherLetter">>,
       <<4698, 4701, "OtherLetter">>, <<4704, 4744, "OtherLetter">>, <<4746, 4749, "OtherLetter">>,
       <<4752, 4784, "OtherLetter">>, <<4786, 4789, "OtherLetter">>, <<4792, 4798, "OtherLetter">>,
       <<4800, 4800, "OtherLetter">>, <<4802, 4805, "OtherLetter">>, <<4808, 4822, "OtherLetter">>,
       <<4824, 4880, "OtherLetter">>, <<4882, 4885, "OtherLetter">>, <<4888, 4954, "OtherLetter">>,
       <<4957, 4959, "NonspacingMark">>, <<4960, 4968, "OtherPunctuation">>, <<4969, 4988, "OtherNumber">>,
       <<4992, 5007, "OtherLetter">>, <<5008, 5017, "OtherSymbol">>, <<5024, 5109, "UppercaseLetter">>,
       <<5112, 5117, "LowercaseLetter">>, <<5120, 5120, "DashPunctuation">>, <<5121, 5740, "OtherLetter">>,
       <<5741, 5741, "OtherSymbol">>, <<5742, 5742, "OtherPunctuation">>, <<5743, 5759, "OtherLetter">>,
       <<5760, 5760, "SpaceSeparator">>, <<5761, 5786, "OtherLetter">>, <<5787, 5787, "OpenPunctuation">>,
       <<5788, 5788, "ClosePunctuation">>, <<5792, 5866, "OtherLetter">>, <<5867, 5869, "OtherPunctuation">>,
       <<5870, 5872, "LetterNumber">>, <<5873, 5880, "OtherLetter">>, <<5888, 5905, "OtherLetter">>,
       <<5906, 5908, "NonspacingMark">>, <<5909, 5909, "SpacingMark">>, <<5919, 5937, "OtherLetter">>,
       <<5938, 5939, "NonspacingMark">>, <<5940, 5940, "SpacingMark">>, <<5941, 5942, "OtherPunctuation">>,
       <<5952, 5969, "OtherLetter">>, <<5970, 5971, "NonspacingMark">>, <<5984, 5996, "OtherLetter">>,
       <<5998, 6000, "OtherLetter">>, <<6002, 6003, "NonspacingMark">>, <<6016, 6067, "OtherLetter">>,
       <<6068, 6069, "NonspacingMark">>, <<6070, 6070, "SpacingMark">>, <<6071, 6077, "NonspacingMark">>,
       <<6078, 6085, "SpacingMark">>, <<6086, 6086, "NonspacingMark">>, <<6087, 6088, "SpacingMark">>,
       <<6089, 6099, "NonspacingMark">>, <<6100, 6102, "OtherPunctuation">>, <<6103, 6103, "ModifierLetter">>,
       <<6104, 6106, "OtherPunctuation">>, <<6107, 6107, "CurrencySymbol">>, <<6108, 6108, "OtherLetter">>,
       <<6109, 6109, "NonspacingMark">>, <<6112, 6121, "DecimalNumber">>, <<6128, 6137, "OtherNumber">>,
       <<6144, 6149, "OtherPunctuation">>, <<6150, 6150, "DashPunctuation">>, <<6151, 6154, "OtherPunctuation">>,
       <<6155, 6157, "NonspacingMark">>, <<6158, 6158, "Format">>, <<6159, 6159, "NonspacingMark">>,
       <<6160, 6169, "DecimalNumber">>, <<6176, 6210, "OtherLetter">>, <<6211, 6211, "ModifierLetter">>,
       <<6212, 6264, "OtherLetter">>, <<6272, 6276, "OtherLetter">>, <<6277, 6278, "NonspacingMark">>,
       <<6279, 6312, "OtherLetter">>, <<6313, 6313, "NonspacingMark">>, <<6314, 6314, "OtherLetter">>,
       <<6320, 6389, "OtherLetter">>, <<6400, 6430, "OtherLetter">>, <<6432, 6434, "NonspacingMark">>,
       <<6435, 6438, "SpacingMark">>, <<6439, 6440, "NonspacingMark">>, <<6441, 6443, "SpacingMark">>,
       <<6448, 6449, "SpacingMark">>, <<6450, 6450, "NonspacingMark">>, <<6451, 6456, "SpacingMark">>,
       <<6457, 6459, "NonspacingMark">>, <<6464, 6464, "OtherSymbol">>, <<6468, 6469, "OtherPunctuation">>,
       <<6470, 6479, "DecimalNumber">>, <<6480, 6509, "OtherLetter">>, <<6512, 6516, "OtherLetter">>,
       <<6528, 6571, "OtherLetter">>, <<6576, 6601, "OtherLetter">>, <<6608, 6617, "DecimalNumber">>,
       <<6618, 6618, "OtherNumber">>, <<6622, 6655, "OtherSymbol">>, <<6656, 6678, "OtherLetter">>,
       <<6679, 6680, "NonspacingMark">>, <<6681, 6682, "SpacingMark">>, <<6683, 6683, "NonspacingMark">>,
       <<6686, 6687, "OtherPunctuation">>, <<6688, 6740, "OtherLetter">>, <<6741, 6741, "SpacingMark">>,
       <<6742, 6742, "NonspacingMark">>, <<6743, 6743, "SpacingMark">>, <<6744, 6750, "NonspacingMark">>,
       <<6752, 6752, "NonspacingMark">>, <<6753, 6753, "SpacingMark">>, <<6754, 6754, "NonspacingMark">>,
       <<6755, 6756, "SpacingMark">>, <<6757, 6764, "NonspacingMark">>, <<6765, 6770, "SpacingMark">>,
       <<6771, 6780, "NonspacingMark">>, <<6783, 6783, "NonspacingMark">>, <<6784, 6793, "DecimalNumber">>,
       <<6800, 6809, "DecimalNumber">>, <<6816, 6822, "OtherPunctuation">>, <<6823, 6823, "ModifierLetter">>,
       <<6824, 6829, "OtherPunctuation">>, <<6832, 6845, "NonspacingMark">>, <<6846, 6846, "EnclosingMark">>,
       <<6847, 6862, "NonspacingMark">>, <<6912, 6915, "NonspacingMark">>, <<6916, 6916, "SpacingMark">>,
       <<6917, 6963, "OtherLetter">>, <<6964, 6964, "NonspacingMark">>, <<6965, 6965, "SpacingMark">>,
       <<6966, 6970, "NonspacingMark">>, <<6971, 6971, "SpacingMark">>, <<6972, 6972, "NonspacingMark">>,
       <<6973, 6977, "SpacingMark">>, <<6978, 6978, "NonspacingMark">>, <<6979, 6980, "SpacingMark">>,
       <<6981, 6988, "OtherLetter">>, <<6992, 7001, "DecimalNumber">>, <<7002, 7008, "OtherPunctuation">>,
       <<7009, 7018, "OtherSymbol">>, <<7019, 7027, "NonspacingMark">>, <<7028, 7036, "OtherSymbol">>,
       <<7037, 7038, "OtherPunctuation">>, <<7040, 7041, "NonspacingMark">>, <<7042, 7042, "SpacingMark">>,
       <<7043, 7072, "OtherLetter">>, <<7073, 7073, "SpacingMark">>, <<7074, 7077, "NonspacingMark">>,
       <<7078, 7079, "SpacingMark">>, <<7080, 7081, "NonspacingMark">>, <<7082, 7082, "SpacingMark">>,
       <<7083, 7085, "NonspacingMark">>, <<7086, 7087, "OtherLetter">>, <<7088, 7097, "DecimalNumber">>,
       <<7098, 7141, "OtherLetter">>, <<7142, 7142, "NonspacingMark">>, <<7143, 7143, "SpacingMark">>,
       <<7144, 7145, "NonspacingMark">>, <<7146, 7148, "SpacingMark">>, <<7149, 7149, "NonspacingMark">>,
       <<7150, 7150, "SpacingMark">>, <<7151, 7153, "NonspacingMark">>, <<7154, 7155, "SpacingMark">>,
       <<7164, 7167, "OtherPunctuation">>, <<7168, 7203, "OtherLetter">>, <<7204, 7211, "SpacingMark">>,
       <<7212, 7219, "NonspacingMark">>, <<7220, 7221, "SpacingMark">>, <<7222, 7223, "NonspacingMark">>,
       <<7227, 7231, "OtherPunctuation">>, <<7232, 7241, "DecimalNumber">>, <<7245, 7247, "OtherLetter">>,
       <<7248, 7257, "DecimalNumber">>, <<7258, 7287, "OtherLetter">>, <<7288, 7293, "ModifierLetter">>,
       <<7294, 7295, "OtherPunctuation">>, <<7296, 7304, "LowercaseLetter">>, <<7312, 7354, "UppercaseLetter">>,
       <<7357, 7359, "UppercaseLetter">>, <<7360, 7367, "OtherPunctuation">>, <<7376, 7378, "NonspacingMark">>,
       <<7379, 7379, "OtherPunctuation">>, <<7380, 7392, "NonspacingMark">>, <<7393, 7393, "SpacingMark">>,
       <<7394, 7400, "NonspacingMark">>, <<7401, 7404, "OtherLetter">>, <<7405, 7405, "NonspacingMark">>,
       <<7406, 7411, "OtherLetter">>, <<7412, 7412, "NonspacingMark">>, <<7413, 7414, "OtherLetter">>,
       <<7415, 7415, "SpacingMark">>, <<7416, 7417, "NonspacingMark">>, <<7418, 7418, "OtherLetter">>,
       <<7424, 7467, "LowercaseLetter">>, <<7468, 7530, "ModifierLetter">>, <<7531, 7543, "LowercaseLetter">>,
       <<7544, 7544, "ModifierLetter">>, <<7545, 7578, "LowercaseLetter">>, <<7579, 7615, "ModifierLetter">>,
       <<7616, 7679, "NonspacingMark">>, <<7680, 7680, "UppercaseLetter">>, <<7681, 7681, "LowercaseLetter">>,
       <<7682, 7682, "UppercaseLetter">>, <<7683, 7683, "LowercaseLetter">>, <<7684, 7684, "UppercaseLetter">>,
       <<7685, 7685, "LowercaseLetter">>, <<7686, 7686, "UppercaseLetter">>, <<7687, 7687, "LowercaseLetter">>,
       <<7688, 7688, "UppercaseLetter">>, <<7689, 7689, "LowercaseLetter">>, <<7690, 7690, "UppercaseLetter">>,
       <<7691, 7691, "LowercaseLetter">>, <<7692, 7692, "UppercaseLetter">>, <<7693, 7693, "LowercaseLetter">>,
       <<7694, 7694, "UppercaseLetter">>, <<7695, 7695, "LowercaseLetter">>, <<7696, 7696, "UppercaseLetter">>,
       <<7697, 7697, "LowercaseLetter">>, <<7698, 7698, "UppercaseLetter">>, <<7699, 7699, "LowercaseLetter">>,
       <<7700, 7700, "UppercaseLetter">>, <<7701, 7701, "LowercaseLetter">>, <<7702, 7702, "UppercaseLetter">>,
       <<7703, 7703, "LowercaseLetter">>, <<7704, 7704, "UppercaseLetter">>, <<7705, 7705, "LowercaseLetter">>,
       <<7706, 7706, "UppercaseLetter">>, <<7707, 7707, "LowercaseLetter">>, <<7708, 7708, "UppercaseLetter">>,
       <<7709, 7709, "LowercaseLetter">>, <<7710, 7710, "UppercaseLetter">>, <<7711, 7711, "LowercaseLetter">>,
       <<7712, 7712, "UppercaseLetter">>, <<7713, 7713, "LowercaseLetter">>, <<7714, 7714, "UppercaseLetter">>,
       <<7715, 7715, "LowercaseLetter">>, <<7716, 7716, "UppercaseLetter">>, <<7717, 7717, "LowercaseLetter">>,
       <<7718, 7718, "UppercaseLetter">>, <<7719, 7719, "LowercaseLetter">>, <<7720, 7720, "UppercaseLetter">>,
       <<7721, 7721, "LowercaseLetter">>, <<7722, 7722, "UppercaseLetter">>, <<7723, 7723, "LowercaseLetter">>,
       <<7724, 7724, "UppercaseLetter">>, <<7725, 7725, "LowercaseLetter">>, <<7726, 7726, "UppercaseLetter">>,
       <<7727, 7727, "LowercaseLetter">>, <<7728, 7728, "UppercaseLetter">>, <<7729, 7729, "LowercaseLetter">>,
       <<7730, 7730, "UppercaseLetter">>, <<7731, 7731, "LowercaseLetter">>, <<7732, 7732, "UppercaseLetter">>,
       <<7733, 7733, "LowercaseLetter">>, <<7734, 7734, "UppercaseLetter">>, <<7735, 7735, "LowercaseLetter">>,
       <<7736, 7736, "UppercaseLetter">>, <<7737, 7737, "LowercaseLetter">>, <<7738, 7738, "UppercaseLetter">>,
       <<7739, 7739, "LowercaseLetter">>, <<7740, 7740, "UppercaseLetter">>, <<7741, 7741, "LowercaseLetter">>,
       <<7742, 7742, "UppercaseLetter">>, <<7743, 7743, "LowercaseLetter">>, <<7744, 7744, "UppercaseLetter">>,
       <<7745, 7745, "LowercaseLetter">>, <<7746, 7746, "UppercaseLetter">>, <<7747, 7747, "LowercaseLetter">>,
       <<7748, 7748, "UppercaseLetter">>, <<7749, 7749, "LowercaseLetter">>, <<7750, 7750, "UppercaseLetter">>,
       <<7751, 7751, "LowercaseLetter">>, <<7752, 7752, "UppercaseLetter">>, <<7753, 7753, "LowercaseLetter">>,
       <<7754, 7754, "UppercaseLetter">>, <<7755, 7755, "LowercaseLetter">>, <<7756, 7756, "UppercaseLetter">>,
       <<7757, 7757, "LowercaseLetter">>, <<7758, 7758, "UppercaseLetter">>, <<7759, 7759, "LowercaseLetter">>,
       <<7760, 7760, "UppercaseLetter">>, <<7761, 7761, "LowercaseLetter">>, <<7762, 7762, "UppercaseLetter">>,
       <<7763, 7763, "LowercaseLetter">>, <<7764, 7764, "UppercaseLetter">>, <<7765, 7765, "LowercaseLetter">>,
       <<7766, 7766, "UppercaseLetter">>, <<7767, 7767, "LowercaseLetter">>, <<7768, 7768, "UppercaseLetter">>,
       <<7769, 7769, "LowercaseLetter">>, <<7770, 7770, "UppercaseLetter">>, <<7771, 7771, "LowercaseLetter">>,
       <<7772, 7772, "UppercaseLetter">>, <<7773, 7773, "LowercaseLetter">>, <<7774, 7774, "UppercaseLetter">>,
       <<7775, 7775, "LowercaseLetter">>, <<7776, 7776, "UppercaseLetter">>, <<7777, 7777, "LowercaseLetter">>,
       <<7778, 7778, "UppercaseLetter">>, <<7779, 7779, "LowercaseLetter">>, <<7780, 7780, "UppercaseLetter">>,
       <<7781, 7781, "LowercaseLetter">>, <<7782, 7782, "UppercaseLetter">>, <<7783, 7783, "LowercaseLetter">>,
       <<7784, 7784, "UppercaseLetter">>, <<7785, 7785, "LowercaseLetter">>, <<7786, 7786, "UppercaseLetter">>,
       <<7787, 7787, "LowercaseLetter">>, <<7788, 7788, "UppercaseLetter">>, <<7789, 7789, "LowercaseLetter">>,
       <<7790, 7790, "UppercaseLetter">>, <<7791, 7791, "LowercaseLetter">>, <<7792, 7792, "UppercaseLetter">>,
       <<7793, 7793, "LowercaseLetter">>, <<7794, 7794, "UppercaseLetter">>, <<7795, 7795, "LowercaseLetter">>,
       <<7796, 7796, "UppercaseLetter">>, <<7797, 7797, "LowercaseLetter">>, <<7798, 7798, "UppercaseLetter">>,
       <<7799, 7799, "LowercaseLetter">>, <<7800, 7800, "UppercaseLetter">>, <<7801, 7801, "LowercaseLetter">>,
       <<7802, 7802, "UppercaseLetter">>, <<7803, 7803, "LowercaseLetter">>, <<7804, 7804, "UppercaseLetter">>,
       <<7805, 7805, "LowercaseLetter">>, <<7806, 7806, "UppercaseLetter">>, <<7807, 7807, "LowercaseLetter">>,
       <<7808, 7808, "UppercaseLetter">>, <<7809, 7809, "LowercaseLetter">>, <<7810, 7810, "UppercaseLetter">>,
       <<7811, 7811, "LowercaseLetter">>, <<7812, 7812, "UppercaseLetter">>, <<7813, 7813, "LowercaseLetter">>,
       <<7814, 7814, "UppercaseLetter">>, <<7815, 7815, "LowercaseLetter">>, <<7816, 7816, "UppercaseLetter">>,
       <<7817, 7817, "LowercaseLetter">>, <<7818, 7818, "UppercaseLetter">>, <<7819, 7819, "LowercaseLetter">>,
       <<7820, 7820, "UppercaseLetter">>, <<7821, 7821, "LowercaseLetter">>, <<7822, 7822, "UppercaseLetter">>,
       <<7823, 7823, "LowercaseLetter">>, <<7824, 7824, "UppercaseLetter">>, <<7825, 7825, "LowercaseLetter">>,
       <<7826, 7826, "UppercaseLetter">>, <<7827, 7827, "LowercaseLetter">>, <<7828, 7828, "UppercaseLetter">>,
       <<7829, 7837, "LowercaseLetter">>, <<7838, 7838, "UppercaseLetter">>, <<7839, 7839, "LowercaseLetter">>,
       <<7840, 7840, "UppercaseLetter">>, <<7841, 7841, "LowercaseLetter">>, <<7842, 7842, "UppercaseLetter">>,
       <<7843, 7843, "LowercaseLetter">>, <<7844, 7844, "UppercaseLetter">>, <<7845, 7845, "LowercaseLetter">>,
       <<7846, 7846, "UppercaseLetter">>, <<7847, 7847, "LowercaseLetter">>, <<7848, 7848, "UppercaseLetter">>,
       <<7849, 7849, "LowercaseLetter">>, <<7850, 7850, "UppercaseLetter">>, <<7851, 7851, "LowercaseLetter">>,
       <<7852, 7852, "UppercaseLetter">>, <<7853, 7853, "LowercaseLetter">>, <<7854, 7854, "UppercaseLetter">>,
       <<7855, 7855, "LowercaseLetter">>, <<7856, 7856, "UppercaseLetter">>, <<7857, 7857, "LowercaseLetter">>,
       <<7858, 7858, "UppercaseLetter">>, <<7859, 7859, "LowercaseLetter">>, <<7860, 7860, "UppercaseLetter">>,
       <<7861, 7861, "LowercaseLetter">>, <<7862, 7862, "UppercaseLetter">>, <<7863, 7863, "LowercaseLetter">>,
       <<7864, 7864, "UppercaseLetter">>, <<7865, 7865, "LowercaseLetter">>, <<7866, 7866, "UppercaseLetter">>,
       <<7867, 7867, "LowercaseLetter">>, <<7868, 7868, "UppercaseLetter">>, <<7869, 7869, "LowercaseLetter">>,
       <<7870, 7870, "UppercaseLetter">>, <<7871, 7871, "LowercaseLetter">>, <<7872, 7872, "UppercaseLetter">>,
       <<7873, 7873, "LowercaseLetter">>, <<7874, 7874, "UppercaseLetter">>, <<7875, 7875, "LowercaseLetter">>,
       <<7876, 7876, "UppercaseLetter">>, <<7877, 7877, "LowercaseLetter">>, <<7878, 7878, "UppercaseLetter">>,
       <<7879, 7879, "LowercaseLetter">>, <<7880, 7880, "UppercaseLetter">>, <<7881, 7881, "LowercaseLetter">>,
       <<7882, 7882, "UppercaseLetter">>, <<7883, 7883, "LowercaseLetter">>, <<7884, 7884, "UppercaseLetter">>,
       <<7885, 7885, "LowercaseLetter">>, <<7886, 7886, "UppercaseLetter">>, <<7887, 7887, "LowercaseLetter">>,
       <<7888, 7888, "UppercaseLetter">>, <<7889, 7889, "LowercaseLetter">>, <<7890, 7890, "UppercaseLetter">>,
       <<7891, 7891, "LowercaseLetter">>, <<7892, 7892, "UppercaseLetter">>, <<7893, 7893, "LowercaseLetter">>,
       <<7894, 7894, "UppercaseLetter">>, <<7895, 7895, "LowercaseLetter">>, <<7896, 7896, "UppercaseLetter">>,
       <<7897, 7897, "LowercaseLetter">>, <<7898, 7898, "UppercaseLetter">>, <<7899, 7899, "LowercaseLetter">>,
       <<7900, 7900, "UppercaseLetter">>, <<7901, 7901, "LowercaseLetter">>, <<7902, 7902, "UppercaseLetter">>,
       <<7903, 7903, "LowercaseLetter">>, <<7904, 7904, "UppercaseLetter">>, <<7905, 7905, "LowercaseLetter">>,
       <<7906, 7906, "UppercaseLetter">>, <<7907, 7907, "LowercaseLetter">>, <<7908, 7908, "UppercaseLetter">>,
       <<7909, 7909, "LowercaseLetter">>, <<7910, 7910, "UppercaseLetter">>, <<7911, 7911, "LowercaseLetter">>,
       <<7912, 7912, "UppercaseLetter">>, <<7913, 7913, "LowercaseLetter">>, <<7914, 7914, "UppercaseLetter">>,
       <<7915, 7915, "LowercaseLetter">>, <<7916, 7916, "UppercaseLetter">>, <<7917, 7917, "LowercaseLetter">>,
       <<7918, 7918, "UppercaseLetter">>, <<7919, 7919, "LowercaseLetter">>, <<7920, 7920, "UppercaseLetter">>,
       <<7921, 7921, "LowercaseLetter">>, <<7922, 7922, "UppercaseLetter">>, <<7923, 7923, "LowercaseLetter">>,
       <<7924, 7924, "UppercaseLetter">>, <<7925, 7925, "LowercaseLetter">>, <<7926, 7926, "UppercaseLetter">>,
       <<7927, 7927, "LowercaseLetter">>, <<7928, 7928, "UppercaseLetter">>, <<7929, 7929, "LowercaseLetter">>,
       <<7930, 7930, "UppercaseLetter">>, <<7931, 7931, "LowercaseLetter">>, <<7932, 7932, "UppercaseLetter">>,
       <<7933, 7933, "LowercaseLetter">>, <<7934, 7934, "UppercaseLetter">>, <<7935, 7943, "LowercaseLetter">>,
       <<7944, 7951, "UppercaseLetter">>, <<7952, 7957, "LowercaseLetter">>, <<7960, 7965, "UppercaseLetter">>,
       <<7968, 7975, "LowercaseLetter">>, <<7976, 7983, "UppercaseLetter">>, <<7984, 7991, "LowercaseLetter">>,
       <<7992, 7999, "UppercaseLetter">>, <<8000, 8005, "LowercaseLetter">>, <<8008, 8013, "UppercaseLetter">>,
       <<8016, 8023, "LowercaseLetter">>, <<8025, 8025, "UppercaseLetter">>, <<8027, 8027, "UppercaseLetter">>,
       <<8029, 8029, "UppercaseLetter">>, <<8031, 8031, "UppercaseLetter">>, <<8032, 8039, "LowercaseLetter">>,
       <<8040, 8047, "UppercaseLetter">>, <<8048, 8061, "LowercaseLetter">>, <<8064, 8071, "LowercaseLetter">>,
       <<8072, 8079, "TitlecaseLetter">>, <<8080, 8087, "LowercaseLetter">>, <<8088, 8095, "TitlecaseLetter">>,
       <<8096, 8103, "LowercaseLetter">>, <<8104, 8111, "TitlecaseLetter">>, <<8112, 8116, "LowercaseLetter">>,
       <<8118, 8119, "LowercaseLetter">>, <<8120, 8123, "UppercaseLetter">>, <<8124, 8124, "TitlecaseLetter">>,
       <<8125, 8125, "ModifierSymbol">>, <<8126, 8126, "LowercaseLetter">>, <<8127, 8129, "ModifierSymbol">>,
       <<8130, 8132, "LowercaseLetter">>, <<8134, 8135, "LowercaseLetter">>, <<8136, 8139, "UppercaseLetter">>,
       <<8140, 8140, "TitlecaseLetter">>, <<8141, 8143, "ModifierSymbol">>, <<8144, 8147, "LowercaseLetter">>,
       <<8150, 8151, "LowercaseLetter">>, <<8152, 8155, "UppercaseLetter">>, <<8157, 8159, "ModifierSymbol">>,
       <<8160, 8167, "LowercaseLetter">>, <<8168, 8172, "UppercaseLetter">>, <<8173, 8175, "ModifierSymbol">>,
       <<8178, 8180, "LowercaseLetter">>, <<8182, 8183, "LowercaseLetter">>, <<8184, 8187, "UppercaseLetter">>,
       <<8188, 8188, "TitlecaseLetter">>, <<8189, 8190, "ModifierSymbol">>, <<8192, 8202, "SpaceSeparator">>,
       <<8203, 8207, "Format">>, <<8208, 8213, "DashPunctuation">>, <<8214, 8215, "OtherPunctuation">>,
       <<8216, 8216, "InitialPunctuation">>, <<8217, 8217, "FinalPunctuation">>, <<8218, 8218, "OpenPunctuation">>,
       <<8219, 8220, "InitialPunctuation">>, <<8221, 8221, "FinalPunctuation">>, <<8222, 8222, "OpenPunctuation">>,
       <<8223, 8223, "InitialPunctuation">>, <<8224, 8231, "OtherPunctuation">>, <<8232, 8232, "LineSeparator">>,
       <<8233, 8233, "ParagraphSeparator">>, <<8234, 8238, "Format">>, <<8239, 8239, "SpaceSeparator">>,
       <<8240, 8248, "OtherPunctuation">>, <<8249, 8249, "InitialPunctuation">>, <<8250, 8250, "FinalPunctuation">>,
       <<8251, 8254, "OtherPunctuation">>, <<8255, 8256, "ConnectorPunctuation">>, <<8257, 8259, "OtherPunctuation">>,
       <<8260, 8260, "MathSymbol">>, <<8261, 8261, "OpenPunctuation">>, <<8262, 8262, "ClosePunctuation">>,
       <<8263, 8273, "OtherPunctuation">>, <<8274, 8274, "MathSymbol">>, <<8275, 8275, "OtherPunctuation">>,
       <<8276, 8276, "ConnectorPunctuation">>, <<8277, 8286, "OtherPunctuation">>, <<8287, 8287, "SpaceSeparator">>,
       <<8288, 8292, "Format">>, <<8294, 8303, "Format">>, <<8304, 8304, "OtherNumber">>,
       <<8305, 8305, "ModifierLetter">>, <<8308, 8313, "OtherNumber">>, <<8314, 8316, "MathSymbol">>,
       <<8317, 8317, "OpenPunctuation">>, <<8318, 8318, "ClosePunctuation">>, <<8319, 8319, "ModifierLetter">>,
       <<8320, 8329, "OtherNumber">>, <<8330, 8332, "MathSymbol">>, <<8333, 8333, "OpenPunctuation">>,
       <<8334, 8334, "ClosePunctuation">>, <<8336, 8348, "ModifierLetter">>, <<8352, 8384, "CurrencySymbol">>,
       <<8400, 8412, "NonspacingMark">>, <<8413, 8416, "EnclosingMark">>, <<8417, 8417, "NonspacingMark">>,
       <<8418, 8420, "EnclosingMark">>, <<8421, 8432, "NonspacingMark">>, <<8448, 8449, "OtherSymbol">>,
       <<8450, 8450, "UppercaseLetter">>, <<8451, 8454, "OtherSymbol">>, <<8455, 8455, "UppercaseLetter">>,
       <<8456, 8457, "OtherSymbol">>, <<8458, 8458, "LowercaseLetter">>, <<8459, 8461, "UppercaseLetter">>,
       <<8462, 8463, "LowercaseLetter">>, <<8464, 8466, "UppercaseLetter">>, <<8467, 8467, "LowercaseLetter">>,
       <<8468, 8468, "OtherSymbol">>, <<8469, 8469, "UppercaseLetter">>, <<8470, 8471, "OtherSymbol">>,
       <<8472, 8472, "MathSymbol">>, <<8473, 8477, "UppercaseLetter">>, <<8478, 8483, "OtherSymbol">>,
       <<8484, 8484, "UppercaseLetter">>, <<8485, 8485, "OtherSymbol">>, <<8486, 8486, "UppercaseLetter">>,
       <<8487, 8487, "OtherSymbol">>, <<8488, 8488, "UppercaseLetter">>, <<8489, 8489, "OtherSymbol">>,
       <<8490, 8493, "UppercaseLetter">>, <<8494, 8494, "OtherSymbol">>, <<8495, 8495, "LowercaseLetter">>,
       <<8496, 8499, "UppercaseLetter">>, <<8500, 8500, "LowercaseLetter">>, <<8501, 8504, "OtherLetter">>,
       <<8505, 8505, "LowercaseLetter">>, <<8506, 8507, "OtherSymbol">>, <<8508, 8509, "LowercaseLetter">>,
       <<8510, 8511, "UppercaseLetter">>, <<8512, 8516, "MathSymbol">>, <<8517, 8517, "UppercaseLetter">>,
       <<8518, 8521, "LowercaseLetter">>, <<8522, 8522, "OtherSymbol">>, <<8523, 8523, "MathSymbol">>,
       <<8524, 8525, "OtherSymbol">>, <<8526, 8526, "LowercaseLetter">>, <<8527, 8527, "OtherSymbol">>,
       <<8528, 8543, "OtherNumber">>, <<8544, 8578, "LetterNumber">>, <<8579, 8579, "UppercaseLetter">>,
       <<8580, 8580, "LowercaseLetter">>, <<8581, 8584, "LetterNumber">>, <<8585, 8585, "OtherNumber">>,
       <<8586, 8587, "OtherSymbol">>, <<8592, 8596, "MathSymbol">>, <<8597, 8601, "OtherSymbol">>,
       <<8602, 8603, "MathSymbol">>, <<8604, 8607, "OtherSymbol">>, <<8608, 8608, "MathSymbol">>,
       <<8609, 8610, "OtherSymbol">>, <<8611, 8611, "MathSymbol">>, <<8612, 8613, "OtherSymbol">>,
       <<8614, 8614, "MathSymbol">>, <<8615, 8621, "OtherSymbol">>, <<8622, 8622, "MathSymbol">>,
       <<8623, 8653, "OtherSymbol">>, <<8654, 8655, "MathSymbol">>, <<8656, 8657, "OtherSymbol">>,
       <<8658, 8658, "MathSymbol">>, <<8659, 8659, "OtherSymbol">>, <<8660, 8660, "MathSymbol">>,
       <<8661, 8691, "OtherSymbol">>, <<8692, 8959, "MathSymbol">>, <<8960, 8967, "OtherSymbol">>,
       <<8968, 8968, "OpenPunctuation">>, <<8969, 8969, "ClosePunctuation">>, <<8970, 8970, "OpenPunctuation">>,
       <<8971, 8971, "ClosePunctuation">>, <<8972, 8991, "OtherSymbol">>, <<8992, 8993, "MathSymbol">>,
       <<8994, 9000, "OtherSymbol">>, <<9001, 9001, "OpenPunctuation">>, <<9002, 9002, "ClosePunctuation">>,
       <<9003, 9083, "OtherSymbol">>, <<9084, 9084, "MathSymbol">>, <<9085, 9114, "OtherSymbol">>,
       <<9115, 9139, "MathSymbol">>, <<9140, 9179, "OtherSymbol">>, <<9180, 9185, "MathSymbol">>,
       <<9186, 9254, "OtherSymbol">>, <<9280, 9290, "OtherSymbol">>, <<9312, 9371, "OtherNumber">>,
       <<9372, 9449, "OtherSymbol">>, <<9450, 9471, "OtherNumber">>, <<9472, 9654, "OtherSymbol">>,
       <<9655, 9655, "MathSymbol">>, <<9656, 9664, "OtherSymbol">>, <<9665, 9665, "MathSymbol">>,
       <<9666, 9719, "OtherSymbol">>, <<9720, 9727, "MathSymbol">>, <<9728, 9838, "OtherSymbol">>,
       <<9839, 9839, "MathSymbol">>, <<9840, 10087, "OtherSymbol">>, <<10088, 10088, "OpenPunctuation">>,
       <<10089, 10089, "ClosePunctuation">>, <<10090, 10090, "OpenPunctuation">>, <<10091, 10091, "ClosePunctuation">>,
       <<10092, 10092, "OpenPunctuation">>, <<10093, 10093, "ClosePunctuation">>, <<10094, 10094, "OpenPunctuation">>,
       <<10095, 10095, "ClosePunctuation">>, <<10096, 10096, "OpenPunctuation">>, <<10097, 10097, "ClosePunctuation">>,
       <<10098, 10098, "OpenPunctuation">>, <<10099, 10099, "ClosePunctuation">>, <<10100, 10100, "OpenPunctuation">>,
       <<10101, 10101, "ClosePunctuation">>, <<10102, 10131, "OtherNumber">>, <<10132, 10175, "OtherSymbol">>,
       <<10176, 10180, "MathSymbol">>, <<10181, 10181, "OpenPunctuation">>, <<10182, 10182, "ClosePunctuation">>,
       <<10183, 10213, "MathSymbol">>, <<10214, 10214, "OpenPunctuation">>, <<10215, 10215, "ClosePunctuation">>,
       <<10216, 10216, "OpenPunctuation">>, <<10217, 10217, "ClosePunctuation">>, <<10218, 10218, "OpenPunctuation">>,
       <<10219, 10219, "ClosePunctuation">>, <<10220, 10220, "OpenPunctuation">>, <<10221, 10221, "ClosePunctuation">>,
       <<10222, 10222, "OpenPunctuation">>, <<10223, 10223, "ClosePunctuation">>, <<10224, 10239, "MathSymbol">>,
       <<10240, 10495, "OtherSymbol">>, <<10496, 10626, "MathSymbol">>, <<10627, 10627, "OpenPunctuation">>,
       <<10628, 10628, "ClosePunctuation">>, <<10629, 10629, "OpenPunctuation">>, <<10630, 10630, "ClosePunctuation">>,
       <<10631, 10631, "OpenPunctuation">>, <<10632, 10632, "ClosePunctuation">>, <<10633, 10633, "OpenPunctuation">>,
       <<10634, 10634, "ClosePunctuation">>, <<10635, 10635, "OpenPunctuation">>, <<10636, 10636, "ClosePunctuation">>,
       <<10637, 10637, "OpenPunctuation">>, <<10638, 10638, "ClosePunctuation">>, <<10639, 10639, "OpenPunctuation">>,
       <<10640, 10640, "ClosePunctuation">>, <<10641, 10641, "OpenPunctuation">>, <<10642, 10642, "ClosePunctuation">>,
       <<10643, 10643, "OpenPunctuation">>, <<10644, 10644, "ClosePunctuation">>, <<10645, 10645, "OpenPunctuation">>,
       <<10646, 10646, "ClosePunctuation">>, <<10647, 10647, "OpenPunctuation">>, <<10648, 10648, "ClosePunctuation">>,
       <<10649, 10711, "MathSymbol">>, <<10712, 10712, "OpenPunctuation">>, <<10713, 10713, "ClosePunctuation">>,
       <<10714, 10714, "OpenPunctuation">>, <<10715, 10715, "ClosePunctuation">>, <<10716, 10747, "MathSymbol">>,
       <<10748, 10748, "OpenPunctuation">>, <<10749, 10749, "ClosePunctuation">>, <<10750, 11007, "MathSymbol">>,
       <<11008, 11055, "OtherSymbol">>, <<11056, 11076, "MathSymbol">>, <<11077, 11078, "OtherSymbol">>,
       <<11079, 11084, "MathSymbol">>, <<11085, 11123, "OtherSymbol">>, <<11126, 11157, "OtherSymbol">>,
       <<11159, 11263, "OtherSymbol">>, <<11264, 11311, "UppercaseLetter">>, <<11312, 11359, "LowercaseLetter">>,
       <<11360, 11360, "UppercaseLetter">>, <<11361, 11361, "LowercaseLetter">>, <<11362, 11364, "UppercaseLetter">>,
       <<11365, 11366, "LowercaseLetter">>, <<11367, 11367, "UppercaseLetter">>, <<11368, 11368, "LowercaseLetter">>,
       <<11369, 11369, "UppercaseLetter">>, <<11370, 11370, "LowercaseLetter">>, <<11371, 11371, "UppercaseLetter">>,
       <<11372, 11372, "LowercaseLetter">>, <<11373, 11376, "UppercaseLetter">>, <<11377, 11377, "LowercaseLetter">>,
       <<11378, 11378, "UppercaseLetter">>, <<11379, 11380, "LowercaseLetter">>, <<11381, 11381, "UppercaseLetter">>,
       <<11382, 11387, "LowercaseLetter">>, <<11388, 11389, "ModifierLetter">>, <<11390, 11392, "UppercaseLetter">>,
       <<11393, 11393, "LowercaseLetter">>, <<11394, 11394, "UppercaseLetter">>, <<11395, 11395, "LowercaseLetter">>,
       <<11396, 11396, "UppercaseLetter">>, <<11397, 11397, "LowercaseLetter">>, <<11398, 11398, "UppercaseLetter">>,
       <<11399, 11399, "LowercaseLetter">>, <<11400, 11400, "UppercaseLetter">>, <<11401, 11401, "LowercaseLetter">>,
       <<11402, 11402, "UppercaseLetter">>, <<11403, 11403, "LowercaseLetter">>, <<11404, 11404, "UppercaseLetter">>,
       <<11405, 11405, "LowercaseLetter">>, <<11406, 11406, "UppercaseLetter">>, <<11407, 11407, "LowercaseLetter">>,
       <<11408, 11408, "UppercaseLetter">>, <<11409, 11409, "LowercaseLetter">>, <<11410, 11410, "UppercaseLetter">>,
       <<11411, 11411, "LowercaseLetter">>, <<11412, 11412, "UppercaseLetter">>, <<11413, 11413, "LowercaseLetter">>,
       <<11414, 11414, "UppercaseLetter">>, <<11415, 11415, "LowercaseLetter">>, <<11416, 11416, "UppercaseLetter">>,
       <<11417, 11417, "LowercaseLetter">>, <<11418, 11418, "UppercaseLetter">>, <<11419, 11419, "LowercaseLetter">>,
       <<11420, 11420, "UppercaseLetter">>, <<11421, 11421, "LowercaseLetter">>, <<11422, 11422, "UppercaseLetter">>,
       <<11423, 11423, "LowercaseLetter">>, <<11424, 11424, "UppercaseLetter">>, <<11425, 11425, "LowercaseLetter">>,
       <<11426, 11426, "UppercaseLetter">>, <<11427, 11427, "LowercaseLetter">>, <<11428, 11428, "UppercaseLetter">>,
       <<11429, 11429, "LowercaseLetter">>, <<11430, 11430, "UppercaseLetter">>, <<11431, 11431, "LowercaseLetter">>,
       <<11432, 11432, "UppercaseLetter">>, <<11433, 11433, "LowercaseLetter">>, <<11434, 11434, "UppercaseLetter">>,
       <<11435, 11435, "LowercaseLetter">>, <<11436, 11436, "UppercaseLetter">>, <<11437, 11437, "LowercaseLetter">>,
       <<11438, 11438, "UppercaseLetter">>, <<11439, 11439, "LowercaseLetter">>, <<11440, 11440, "UppercaseLetter">>,
       <<11441, 11441, "LowercaseLetter">>, <<11442, 11442, "UppercaseLetter">>, <<11443, 11443, "LowercaseLetter">>,
       <<11444, 11444, "UppercaseLetter">>, <<11445, 11445, "LowercaseLetter">>, <<11446, 11446, "UppercaseLetter">>,
       <<11447, 11447, "LowercaseLetter">>, <<11448, 11448, "UppercaseLetter">>, <<11449, 11449, "LowercaseLetter">>,
       <<11450, 11450, "UppercaseLetter">>, <<11451, 11451, "LowercaseLetter">>, <<11452, 11452, "UppercaseLetter">>,
       <<11453, 11453, "LowercaseLetter">>, <<11454, 11454, "UppercaseLetter">>, <<11455, 11455, "LowercaseLetter">>,
       <<11456, 11456, "UppercaseLetter">>, <<11457, 11457, "LowercaseLetter">>, <<11458, 11458, "UppercaseLetter">>,
       <<11459, 11459, "LowercaseLetter">>, <<11460, 11460, "UppercaseLetter">>, <<11461, 11461, "LowercaseLetter">>,
       <<11462, 11462, "UppercaseLetter">>, <<11463, 11463, "LowercaseLetter">>, <<11464, 11464, "UppercaseLetter">>,
       <<11465, 11465, "LowercaseLetter">>, <<11466, 11466, "UppercaseLetter">>, <<11467, 11467, "LowercaseLetter">>,
       <<11468, 11468, "UppercaseLetter">>, <<11469, 11469, "LowercaseLetter">>, <<11470, 11470, "UppercaseLetter">>,
       <<11471, 11471, "LowercaseLetter">>, <<11472, 11472, "UppercaseLetter">>, <<11473, 11473, "LowercaseLetter">>,
       <<11474, 11474, "UppercaseLetter">>, <<11475, 11475, "LowercaseLetter">>, <<11476, 11476, "UppercaseLetter">>,
       <<11477, 11477, "LowercaseLetter">>, <<11478, 11478, "UppercaseLetter">>, <<11479, 11479, "LowercaseLetter">>,
       <<11480, 11480, "UppercaseLetter">>, <<11481, 11481, "LowercaseLetter">>, <<11482, 11482, "UppercaseLetter">>,
       <<11483, 11483, "LowercaseLetter">>, <<11484, 11484, "UppercaseLetter">>, <<11485, 11485, "LowercaseLetter">>,
       <<11486, 11486, "UppercaseLetter">>, <<11487, 11487, "LowercaseLetter">>, <<11488, 11488, "UppercaseLetter">>,
       <<11489, 11489, "LowercaseLetter">>, <<11490, 11490, "UppercaseLetter">>, <<11491, 11492, "LowercaseLetter">>,
       <<11493, 11498, "OtherSymbol">>, <<11499, 11499, "UppercaseLetter">>, <<11500, 11500, "LowercaseLetter">>,
       <<11501, 11501, "UppercaseLetter">>, <<11502, 11502, "LowercaseLetter">>, <<11503, 11505, "NonspacingMark">>,
       <<11506, 11506, "UppercaseLetter">>, <<11507, 11507, "LowercaseLetter">>, <<11513, 11516, "OtherPunctuation">>,
       <<11517, 11517, "OtherNumber">>, <<11518, 11519, "OtherPunctuation">>, <<11520, 11557, "LowercaseLetter">>,
       <<11559, 11559, "LowercaseLetter">>, <<11565, 11565, "LowercaseLetter">>, <<11568, 11623, "OtherLetter">>,
       <<11631, 11631, "ModifierLetter">>, <<11632, 11632, "OtherPunctuation">>, <<11647, 11647, "NonspacingMark">>,
       <<11648, 11670, "OtherLetter">>, <<11680, 11686, "OtherLetter">>, <<11688, 11694, "OtherLetter">>,
       <<11696, 11702, "OtherLetter">>, <<11704, 11710, "OtherLetter">>, <<11712, 11718, "OtherLetter">>,
       <<11720, 11726, "OtherLetter">>, <<11728, 11734, "OtherLetter">>, <<11736, 11742, "OtherLetter">>,
       <<11744, 11775, "NonspacingMark">>, <<11776, 11777, "OtherPunctuation">>, <<11778, 11778, "InitialPunctuation">>,
       <<11779, 11779, "FinalPunctuation">>, <<11780, 11780, "InitialPunctuation">>, <<11781, 11781, "FinalPunctuation">>,
       <<11782, 11784, "OtherPunctuation">>, <<11785, 11785, "InitialPunctuation">>, <<11786, 11786, "FinalPunctuation">>,
       <<11787, 11787, "OtherPunctuation">>, <<11788, 11788, "InitialPunctuation">>, <<11789, 11789, "FinalPunctuation">>,
       <<11790, 11798, "OtherPunctuation">>, <<11799, 11799, "DashPunctuation">>, <<11800, 11801, "OtherPunctuation">>,
       <<11802, 11802, "DashPunctuation">>, <<11803, 11803, "OtherPunctuation">>, <<11804, 11804, "InitialPunctuation">>,
       <<11805, 11805, "FinalPunctuation">>, <<11806, 11807, "OtherPunctuation">>, <<11808, 11808, "InitialPunctuation">>,
       <<11809, 11809, "FinalPunctuation">>, <<11810, 11810, "OpenPunctuation">>, <<11811, 11811, "ClosePunctuation">>,
       <<11812, 11812, "OpenPunctuation">>, <<11813, 11813, "ClosePunctuation">>, <<11814, 11814, "OpenPunctuation">>,
       <<11815, 11815, "ClosePunctuation">>, <<11816, 11816, "OpenPunctuation">>, <<11817, 11817, "ClosePunctuation">>,
       <<11818, 11822, "OtherPunctuation">>, <<11823, 11823, "ModifierLetter">>, <<11824, 11833, "OtherPunctuation">>,
       <<11834, 11835, "DashPunctuation">>, <<11836, 11839, "OtherPunctuation">>, <<11840, 11840, "DashPunctuation">>,
       <<11841, 11841, "OtherPunctuation">>, <<11842, 11842, "OpenPunctuation">>, <<11843, 11855, "OtherPunctuation">>,
       <<11856, 11857, "OtherSymbol">>, <<11858, 11860, "OtherPunctuation">>, <<11861, 11861, "OpenPunctuation">>,
       <<11862, 11862, "ClosePunctuation">>, <<11863, 11863, "OpenPunctuation">>, <<11864, 11864, "ClosePunctuation">>,
       <<11865, 11865, "OpenPunctuation">>, <<11866, 11866, "ClosePunctuation">>, <<11867, 11867, "OpenPunctuation">>,
       <<11868, 11868, "ClosePunctuation">>, <<11869, 11869, "DashPunctuation">>, <<11904, 11929, "OtherSymbol">>,
       <<11931, 12019, "OtherSymbol">>, <<12032, 12245, "OtherSymbol">>, <<12272, 12287, "OtherSymbol">>,
       <<12288, 12288, "SpaceSeparator">>, <<12289, 12291, "OtherPunctuation">>, <<12292, 12292, "OtherSymbol">>,
       <<12293, 12293, "ModifierLetter">>, <<12294, 12294, "OtherLetter">>, <<12295, 12295, "LetterNumber">>,
       <<12296, 12296, "OpenPunctuation">>, <<12297, 12297, "ClosePunctuation">>, <<12298, 12298, "OpenPunctuation">>,
       <<12299, 12299, "ClosePunctuation">>, <<12300, 12300, "OpenPunctuation">>, <<12301, 12301, "ClosePunctuation">>,
       <<12302, 12302, "OpenPunctuation">>, <<12303, 12303, "ClosePunctuation">>, <<12304, 12304, "OpenPunctuation">>,
       <<12305, 12305, "ClosePunctuation">>, <<12306, 12307, "OtherSymbol">>, <<12308, 12308, "OpenPunctuation">>,
       <<12309, 12309, "ClosePunctuation">>, <<12310, 12310, "OpenPunctuation">>, <<12311, 12311, "ClosePunctuation">>,
       <<12312, 12312, "OpenPunctuation">>, <<12313, 12313, "ClosePunctuation">>, <<12314, 12314, "OpenPunctuation">>,
       <<12315, 12315, "ClosePunctuation">>, <<12316, 12316, "DashPunctuation">>, <<12317, 12317, "OpenPunctuation">>,
       <<12318, 12319, "ClosePunctuation">>, <<12320, 12320, "OtherSymbol">>, <<12321, 12329, "LetterNumber">>,
       <<12330, 12333, "NonspacingMark">>, <<12334, 12335, "SpacingMark">>, <<12336, 12336, "DashPunctuation">>,
       <<12337, 12341, "ModifierLetter">>, <<12342, 12343, "OtherSymbol">>, <<12344, 12346, "LetterNumber">>,
       <<12347, 12347, "ModifierLetter">>, <<12348, 12348, "OtherLetter">>, <<12349, 12349, "OtherPunctuation">>,
       <<12350, 12351, "OtherSymbol">>, <<12353, 12438, "OtherLetter">>, <<12441, 12442, "NonspacingMark">>,
       <<12443, 12444, "ModifierSymbol">>, <<12445, 12446, "ModifierLetter">>, <<12447, 12447, "OtherLetter">>,
       <<12448, 12448, "DashPunctuation">>, <<12449, 12538, "OtherLetter">>, <<12539, 12539, "OtherPunctuation">>,
       <<12540, 12542, "ModifierLetter">>, <<12543, 12543, "OtherLetter">>, <<12549, 12591, "OtherLetter">>,
       <<12593, 12686, "OtherLetter">>, <<12688, 12689, "OtherSymbol">>, <<12690, 12693, "OtherNumber">>,
       <<12694, 12703, "OtherSymbol">>, <<12704, 12735, "OtherLetter">>, <<12736, 12771, "OtherSymbol">>,
       <<12783, 12783, "OtherSymbol">>, <<12784, 12799, "OtherLetter">>, <<12800, 12830, "OtherSymbol">>,
       <<12832, 12841, "OtherNumber">>, <<12842, 12871, "OtherSymbol">>, <<12872, 12879, "OtherNumber">>,
       <<12880, 12880, "OtherSymbol">>, <<12881, 12895, "OtherNumber">>, <<12896, 12927, "OtherSymbol">>,
       <<12928, 12937, "OtherNumber">>, <<12938, 12976, "OtherSymbol">>, <<12977, 12991, "OtherNumber">>,
       <<12992, 13311, "OtherSymbol">>, <<13312, 19903, "OtherLetter">>, <<19904, 19967, "OtherSymbol">>,
       <<19968, 40980, "OtherLetter">>, <<40981, 40981, "ModifierLetter">>, <<40982, 42124, "OtherLetter">>,
       <<42128, 42182, "OtherSymbol">>, <<42192, 42231, "OtherLetter">>, <<42232, 42237, "ModifierLetter">>,
       <<42238, 42239, "OtherPunctuation">>, <<42240, 42507, "OtherLetter">>, <<42508, 42508, "ModifierLetter">>,
       <<42509, 42511, "OtherPunctuation">>, <<42512, 42527, "OtherLetter">>, <<42528, 42537, "DecimalNumber">>,
       <<42538, 42539, "OtherLetter">>, <<42560, 42560, "UppercaseLetter">>, <<42561, 42561, "LowercaseLetter">>,
       <<42562, 42562, "UppercaseLetter">>, <<42563, 42563, "LowercaseLetter">>, <<42564, 42564, "UppercaseLetter">>,
       <<42565, 42565, "LowercaseLetter">>, <<42566, 42566, "UppercaseLetter">>, <<42567, 42567, "LowercaseLetter">>,
       <<42568, 42568, "UppercaseLetter">>, <<42569, 42569, "LowercaseLetter">>, <<42570, 42570, "UppercaseLetter">>,
       <<42571, 42571, "LowercaseLetter">>, <<42572, 42572, "UppercaseLetter">>, <<42573, 42573, "LowercaseLetter">>,
       <<42574, 42574, "UppercaseLetter">>, <<42575, 42575, "LowercaseLetter">>, <<42576, 42576, "UppercaseLetter">>,
       <<42577, 42577, "LowercaseLetter">>, <<42578, 42578, "UppercaseLetter">>, <<42579, 42579, "LowercaseLetter">>,
       <<42580, 42580, "UppercaseLetter">>, <<42581, 42581, "LowercaseLetter">>, <<42582, 42582, "UppercaseLetter">>,
       <<42583, 42583, "LowercaseLetter">>, <<42584, 42584, "UppercaseLetter">>, <<42585, 42585, "LowercaseLetter">>,
       <<42586, 42586, "UppercaseLetter">>, <<42587, 42587, "LowercaseLetter">>, <<42588, 42588, "UppercaseLetter">>,
       <<42589, 42589, "LowercaseLetter">>, <<42590, 42590, "UppercaseLetter">>, <<42591, 42591, "LowercaseLetter">>,
       <<42592, 42592, "UppercaseLetter">>, <<42593, 42593, "LowercaseLetter">>, <<42594, 42594, "UppercaseLetter">>,
       <<42595, 42595, "LowercaseLetter">>, <<42596, 42596, "UppercaseLetter">>, <<42597, 42597, "LowercaseLetter">>,
       <<42598, 42598, "UppercaseLetter">>, <<42599, 42599, "LowercaseLetter">>, <<42600, 42600, "UppercaseLetter">>,
       <<42601, 42601, "LowercaseLetter">>, <<42602, 42602, "UppercaseLetter">>, <<42603, 42603, "LowercaseLetter">>,
       <<42604, 42604, "UppercaseLetter">>, <<42605, 42605, "LowercaseLetter">>, <<42606, 42606, "OtherLetter">>,
       <<42607, 42607, "NonspacingMark">>, <<42608, 42610, "EnclosingMark">>, <<42611, 42611, "OtherPunctuation">>,
       <<42612, 42621, "NonspacingMark">>, <<42622, 42622, "OtherPunctuation">>, <<42623, 42623, "ModifierLetter">>,
       <<42624, 42624, "UppercaseLetter">>, <<42625, 42625, "LowercaseLetter">>, <<42626, 42626, "UppercaseLetter">>,
       <<42627, 42627, "LowercaseLetter">>, <<42628, 42628, "UppercaseLetter">>, <<42629, 42629, "LowercaseLetter">>,
       <<42630, 42630, "UppercaseLetter">>, <<42631, 42631, "LowercaseLetter">>, <<42632, 42632, "UppercaseLetter">>,
       <<42633, 42633, "LowercaseLetter">>, <<42634, 42634, "UppercaseLetter">>, <<42635, 42635, "LowercaseLetter">>,
       <<42636, 42636, "UppercaseLetter">>, <<42637, 42637, "LowercaseLetter">>, <<42638, 42638, "UppercaseLetter">>,
       <<42639, 42639, "LowercaseLetter">>, <<42640, 42640, "UppercaseLetter">>, <<42641, 42641, "LowercaseLetter">>,
       <<42642, 42642, "UppercaseLetter">>, <<42643, 42643, "LowercaseLetter">>, <<42644, 42644, "UppercaseLetter">>,
       <<42645, 42645, "LowercaseLetter">>, <<42646, 42646, "UppercaseLetter">>, <<42647, 42647, "LowercaseLetter">>,
       <<42648, 42648, "UppercaseLetter">>, <<42649, 42649, "LowercaseLetter">>, <<42650, 42650, "UppercaseLetter">>,
       <<42651, 42651, "LowercaseLetter">>, <<42652, 42653, "ModifierLetter">>, <<42654, 42655, "NonspacingMark">>,
       <<42656, 42725, "OtherLetter">>, <<42726, 42735, "LetterNumber">>, <<42736, 42737, "NonspacingMark">>,
       <<42738, 42743, "OtherPunctuation">>, <<42752, 42774, "ModifierSymbol">>, <<42775, 42783, "ModifierLetter">>,
       <<42784, 42785, "ModifierSymbol">>, <<42786, 42786, "UppercaseLetter">>, <<42787, 42787, "LowercaseLetter">>,
       <<42788, 42788, "UppercaseLetter">>, <<42789, 42789, "LowercaseLetter">>, <<42790, 42790, "UppercaseLetter">>,
       <<42791, 42791, "LowercaseLetter">>, <<42792, 42792, "UppercaseLetter">>, <<42793, 42793, "LowercaseLetter">>,
       <<42794, 42794, "UppercaseLetter">>, <<42795, 42795, "LowercaseLetter">>, <<42796, 42796, "UppercaseLetter">>,
       <<42797, 42797, "LowercaseLetter">>, <<42798, 42798, "UppercaseLetter">>, <<42799, 42801, "LowercaseLetter">>,
       <<42802, 42802, "UppercaseLetter">>, <<42803, 42803, "LowercaseLetter">>, <<42804, 42804, "UppercaseLetter">>,
       <<42805, 42805, "LowercaseLetter">>, <<42806, 42806, "UppercaseLetter">>, <<42807, 42807, "LowercaseLetter">>,
       <<42808, 42808, "UppercaseLetter">>, <<42809, 42809, "LowercaseLetter">>, <<42810, 42810, "UppercaseLetter">>,
       <<42811, 42811, "LowercaseLetter">>, <<42812, 42812, "UppercaseLetter">>, <<42813, 42813, "LowercaseLetter">>,
       <<42814, 42814, "UppercaseLetter">>, <<42815, 42815, "LowercaseLetter">>, <<42816, 42816, "UppercaseLetter">>,
       <<42817, 42817, "LowercaseLetter">>, <<42818, 42818, "UppercaseLetter">>, <<42819, 42819, "LowercaseLetter">>,
       <<42820, 42820, "UppercaseLetter">>, <<42821, 42821, "LowercaseLetter">>, <<42822, 42822, "UppercaseLetter">>,
       <<42823, 42823, "LowercaseLetter">>, <<42824, 42824, "UppercaseLetter">>, <<42825, 42825, "LowercaseLetter">>,
       <<42826, 42826, "UppercaseLetter">>, <<42827, 42827, "LowercaseLetter">>, <<42828, 42828, "UppercaseLetter">>,
       <<42829, 42829, "LowercaseLetter">>, <<42830, 42830, "UppercaseLetter">>, <<42831, 42831, "LowercaseLetter">>,
       <<42832, 42832, "UppercaseLetter">>, <<42833, 42833, "LowercaseLetter">>, <<42834, 42834, "UppercaseLetter">>,
       <<42835, 42835, "LowercaseLetter">>, <<42836, 42836, "UppercaseLetter">>, <<42837, 42837, "LowercaseLetter">>,
       <<42838, 42838, "UppercaseLetter">>, <<42839, 42839, "LowercaseLetter">>, <<42840, 42840, "UppercaseLetter">>,
       <<42841, 42841, "LowercaseLetter">>, <<42842, 42842, "UppercaseLetter">>, <<42843, 42843, "LowercaseLetter">>,
       <<42844, 42844, "UppercaseLetter">>, <<42845, 42845, "LowercaseLetter">>, <<42846, 42846, "UppercaseLetter">>,
       <<42847, 42847, "LowercaseLetter">>, <<42848, 42848, "UppercaseLetter">>, <<42849, 42849, "LowercaseLetter">>,
       <<42850, 42850, "UppercaseLetter">>, <<42851, 42851, "LowercaseLetter">>, <<42852, 42852, "UppercaseLetter">>,
       <<42853, 42853, "LowercaseLetter">>, <<42854, 42854, "UppercaseLetter">>, <<42855, 42855, "LowercaseLetter">>,
       <<42856, 42856, "UppercaseLetter">>, <<42857, 42857, "LowercaseLetter">>, <<42858, 42858, "UppercaseLetter">>,
       <<42859, 42859, "LowercaseLetter">>, <<42860, 42860, "UppercaseLetter">>, <<42861, 42861, "LowercaseLetter">>,
       <<42862, 42862, "UppercaseLetter">>, <<42863, 42863, "LowercaseLetter">>, <<42864, 42864, "ModifierLetter">>,
       <<42865, 42872, "LowercaseLetter">>, <<42873, 42873, "UppercaseLetter">>, <<42874, 42874, "LowercaseLetter">>,
       <<42875, 42875, "UppercaseLetter">>, <<42876, 42876, "LowercaseLetter">>, <<42877, 42878, "UppercaseLetter">>,
       <<42879, 42879, "LowercaseLetter">>, <<42880, 42880, "UppercaseLetter">>, <<42881, 42881, "LowercaseLetter">>,
       <<42882, 42882, "UppercaseLetter">>, <<42883, 42883, "LowercaseLetter">>, <<42884, 42884, "UppercaseLetter">>,
       <<42885, 42885, "LowercaseLetter">>, <<42886, 42886, "UppercaseLetter">>, <<42887, 42887, "LowercaseLetter">>,
       <<42888, 42888, "ModifierLetter">>, <<42889, 42890, "ModifierSymbol">>, <<42891, 42891, "UppercaseLetter">>,
       <<42892, 42892, "LowercaseLetter">>, <<42893, 42893, "UppercaseLetter">>, <<42894, 42894, "LowercaseLetter">>,
       <<42895, 42895, "OtherLetter">>, <<42896, 42896, "UppercaseLetter">>, <<42897, 42897, "LowercaseLetter">>,
       <<42898, 42898, "UppercaseLetter">>, <<42899, 42901, "LowercaseLetter">>, <<42902, 42902, "UppercaseLetter">>,
       <<42903, 42903, "LowercaseLetter">>, <<42904, 42904, "UppercaseLetter">>, <<42905, 42905, "LowercaseLetter">>,
       <<42906, 42906, "UppercaseLetter">>, <<42907, 42907, "LowercaseLetter">>, <<42908, 42908, "UppercaseLetter">>,
       <<42909, 42909, "LowercaseLetter">>, <<42910, 42910, "UppercaseLetter">>, <<42911, 42911, "LowercaseLetter">>,
       <<42912, 42912, "UppercaseLetter">>, <<42913, 42913, "LowercaseLetter">>, <<42914, 42914, "UppercaseLetter">>,
       <<42915, 42915, "LowercaseLetter">>, <<42916, 42916, "UppercaseLetter">>, <<42917, 42917, "LowercaseLetter">>,
       <<42918, 42918, "UppercaseLetter">>, <<42919, 42919, "LowercaseLetter">>, <<42920, 42920, "UppercaseLetter">>,
       <<42921, 42921, "LowercaseLetter">>, <<42922, 42926, "UppercaseLetter">>, <<42927, 42927, "LowercaseLetter">>,
       <<42928, 42932, "UppercaseLetter">>, <<42933, 42933, "LowercaseLetter">>, <<42934, 42934, "UppercaseLetter">>,
       <<42935, 42935, "LowercaseLetter">>, <<42936, 42936, "UppercaseLetter">>, <<42937, 42937, "LowercaseLetter">>,
       <<42938, 42938, "UppercaseLetter">>, <<42939, 42939, "LowercaseLetter">>, <<42940, 42940, "UppercaseLetter">>,
       <<42941, 42941, "LowercaseLetter">>, <<42942, 42942, "UppercaseLetter">>, <<42943, 42943, "LowercaseLetter">>,
       <<42944, 42944, "UppercaseLetter">>, <<42945, 42945, "LowercaseLetter">>, <<42946, 42946, "UppercaseLetter">>,
       <<42947, 42947, "LowercaseLetter">>, <<42948, 42951, "UppercaseLetter">>, <<42952, 42952, "LowercaseLetter">>,
       <<42953, 42953, "UppercaseLetter">>, <<42954, 42954, "LowercaseLetter">>, <<42960, 42960, "UppercaseLetter">>,
       <<42961, 42961, "LowercaseLetter">>, <<42963, 42963, "LowercaseLetter">>, <<42965, 42965, "LowercaseLetter">>,
       <<42966, 42966, "UppercaseLetter">>, <<42967, 42967, "LowercaseLetter">>, <<42968, 42968, "UppercaseLetter">>,
       <<42969, 42969, "LowercaseLetter">>, <<42994, 42996, "ModifierLetter">>, <<42997, 42997, "UppercaseLetter">>,
       <<42998, 42998, "LowercaseLetter">>, <<42999, 42999, "OtherLetter">>, <<43000, 43001, "ModifierLetter">>,
       <<43002, 43002, "LowercaseLetter">>, <<43003, 43009, "OtherLetter">>, <<43010, 43010, "NonspacingMark">>,
       <<43011, 43013, "OtherLetter">>, <<43014, 43014, "NonspacingMark">>, <<43015, 43018, "OtherLetter">>,
       <<43019, 43019, "NonspacingMark">>, <<43020, 43042, "OtherLetter">>, <<43043, 43044, "SpacingMark">>,
       <<43045, 43046, "NonspacingMark">>, <<43047, 43047, "SpacingMark">>, <<43048, 43051, "OtherSymbol">>,
       <<43052, 43052, "NonspacingMark">>, <<43056, 43061, "OtherNumber">>, <<43062, 43063, "OtherSymbol">>,
       <<43064, 43064, "CurrencySymbol">>, <<43065, 43065, "OtherSymbol">>, <<43072, 43123, "OtherLetter">>,
       <<43124, 43127, "OtherPunctuation">>, <<43136, 43137, "SpacingMark">>, <<43138, 43187, "OtherLetter">>,
       <<43188, 43203, "SpacingMark">>, <<43204, 43205, "NonspacingMark">>, <<43214, 43215, "OtherPunctuation">>,
       <<43216, 43225, "DecimalNumber">>, <<43232, 43249, "NonspacingMark">>, <<43250, 43255, "OtherLetter">>,
       <<43256, 43258, "OtherPunctuation">>, <<43259, 43259, "OtherLetter">>, <<43260, 43260, "OtherPunctuation">>,
       <<43261, 43262, "OtherLetter">>, <<43263, 43263, "NonspacingMark">>, <<43264, 43273, "DecimalNumber">>,
       <<43274, 43301, "OtherLetter">>, <<43302, 43309, "NonspacingMark">>, <<43310, 43311, "OtherPunctuation">>,
       <<43312, 43334, "OtherLetter">>, <<43335, 43345, "NonspacingMark">>, <<43346, 43347, "SpacingMark">>,
       <<43359, 43359, "OtherPunctuation">>, <<43360, 43388, "OtherLetter">>, <<43392, 43394, "NonspacingMark">>,
       <<43395, 43395, "SpacingMark">>, <<43396, 43442, "OtherLetter">>, <<43443, 43443, "NonspacingMark">>,
       <<43444, 43445, "SpacingMark">>, <<43446, 43449, "NonspacingMark">>, <<43450, 43451, "SpacingMark">>,
       <<43452, 43453, "NonspacingMark">>, <<43454, 43456, "SpacingMark">>, <<43457, 43469, "OtherPunctuation">>,
       <<43471, 43471, "ModifierLetter">>, <<43472, 43481, "DecimalNumber">>, <<43486, 43487, "OtherPunctuation">>,
       <<43488, 43492, "OtherLetter">>, <<43493, 43493, "NonspacingMark">>, <<43494, 43494, "ModifierLetter">>,
       <<43495, 43503, "OtherLetter">>, <<43504, 43513, "DecimalNumber">>, <<43514, 43518, "OtherLetter">>,
       <<43520, 43560, "OtherLetter">>, <<43561, 43566, "NonspacingMark">>, <<43567, 43568, "SpacingMark">>,
       <<43569, 43570, "NonspacingMark">>, <<43571, 43572, "SpacingMark">>, <<43573, 43574, "NonspacingMark">>,
       <<43584, 43586, "OtherLetter">>, <<43587, 43587, "NonspacingMark">>, <<43588, 43595, "OtherLetter">>,
       <<43596, 43596, "NonspacingMark">>, <<43597, 43597, "SpacingMark">>, <<43600, 43609, "DecimalNumber">>,
       <<43612, 43615, "OtherPunctuation">>, <<43616, 43631, "OtherLetter">>, <<43632, 43632, "ModifierLetter">>,
       <<43633, 43638, "OtherLetter">>, <<43639, 43641, "OtherSymbol">>, <<43642, 43642, "OtherLetter">>,
       <<43643, 43643, "SpacingMark">>, <<43644, 43644, "NonspacingMark">>, <<43645, 43645, "SpacingMark">>,
       <<43646, 43695, "OtherLetter">>, <<43696, 43696, "NonspacingMark">>, <<43697, 43697, "OtherLetter">>,
       <<43698, 43700, "NonspacingMark">>, <<43701, 43702, "OtherLetter">>, <<43703, 43704, "NonspacingMark">>,
       <<43705, 43709, "OtherLetter">>, <<43710, 43711, "NonspacingMark">>, <<43712, 43712, "OtherLetter">>,
       <<43713, 43713, "NonspacingMark">>, <<43714, 43714, "OtherLetter">>, <<43739, 43740, "OtherLetter">>,
       <<43741, 43741, "ModifierLetter">>, <<43742, 43743, "OtherPunctuation">>, <<43744, 43754, "OtherLetter">>,
       <<43755, 43755, "SpacingMark">>, <<43756, 43757, "NonspacingMark">>, <<43758, 43759, "SpacingMark">>,
       <<43760, 43761, "OtherPunctuation">>, <<43762, 43762, "OtherLetter">>, <<43763, 43764, "ModifierLetter">>,
       <<43765, 43765, "SpacingMark">>, <<43766, 43766, "NonspacingMark">>, <<43777, 43782, "OtherLetter">>,
       <<43785, 43790, "OtherLetter">>, <<43793, 43798, "OtherLetter">>, <<43808, 43814, "OtherLetter">>,
       <<43816, 43822, "OtherLetter">>, <<43824, 43866, "LowercaseLetter">>, <<43867, 43867, "ModifierSymbol">>,
       <<43868, 43871, "ModifierLetter">>, <<43872, 43880, "LowercaseLetter">>, <<43881, 43881, "ModifierLetter">>,
       <<43882, 43883, "ModifierSymbol">>, <<43888, 43967, "LowercaseLetter">>, <<43968, 44002, "OtherLetter">>,
       <<44003, 44004, "SpacingMark">>, <<44005, 44005, "NonspacingMark">>, <<44006, 44007, "SpacingMark">>,
       <<44008, 44008, "NonspacingMark">>, <<44009, 44010, "SpacingMark">>, <<44011, 44011, "OtherPunctuation">>,
       <<44012, 44012, "SpacingMark">>, <<44013, 44013, "NonspacingMark">>, <<44016, 44025, "DecimalNumber">>,
       <<44032, 55203, "OtherLetter">>, <<55216, 55238, "OtherLetter">>, <<55243, 55291, "OtherLetter">>,
       <<55296, 57343, "Surrogate">>, <<57344, 63743, "PrivateUse">>, <<63744, 64109, "OtherLetter">>,
       <<64112, 64217, "OtherLetter">>, <<64256, 64262, "LowercaseLetter">>, <<64275, 64279, "LowercaseLetter">>,
       <<64285, 64285, "OtherLetter">>, <<64286, 64286, "NonspacingMark">>, <<64287, 64296, "OtherLetter">>,
       <<64297, 64297, "MathSymbol">>, <<64298, 64310, "OtherLetter">>, <<64312, 64316, "OtherLetter">>,
       <<64318, 64318, "OtherLetter">>, <<64320, 64321, "OtherLetter">>, <<64323, 64324, "OtherLetter">>,
       <<64326, 64433, "OtherLetter">>, <<64434, 64450, "ModifierSymbol">>, <<64467, 64829, "OtherLetter">>,
       <<64830, 64830, "ClosePunctuation">>, <<64831, 64831, "OpenPunctuation">>, <<64832, 64847, "OtherSymbol">>,
       <<64848, 64911, "OtherLetter">>, <<64914, 64967, "OtherLetter">>, <<64975, 64975, "OtherSymbol">>,
       <<65008, 65019, "OtherLetter">>, <<65020, 65020, "CurrencySymbol">>, <<65021, 65023, "OtherSymbol">>,
       <<65024, 65039, "NonspacingMark">>, <<65040, 65046, "OtherPunctuation">>, <<65047, 65047, "OpenPunctuation">>,
       <<65048, 65048, "ClosePunctuation">>, <<65049, 65049, "OtherPunctuation">>, <<65056, 65071, "NonspacingMark">>,
       <<65072, 65072, "OtherPunctuation">>, <<65073, 65074, "DashPunctuation">>, <<65075, 65076, "ConnectorPunctuation">>,
       <<65077, 65077, "OpenPunctuation">>, <<65078, 65078, "ClosePunctuation">>, <<65079, 65079, "OpenPunctuation">>,
       <<65080, 65080, "ClosePunctuation">>, <<65081, 65081, "OpenPunctuation">>, <<65082, 65082, "ClosePunctuation">>,
       <<65083, 65083, "OpenPunctuation">>, <<65084, 65084, "ClosePunctuation">>, <<65085, 65085, "OpenPunctuation">>,
       <<65086, 65086, "ClosePunctuation">>, <<65087, 65087, "OpenPunctuation">>, <<65088, 65088, "ClosePunctuation">>,
       <<65089, 65089, "OpenPunctuation">>, <<65090, 65090, "ClosePunctuation">>, <<65091, 65091, "OpenPunctuation">>,
       <<65092, 65092, "ClosePunctuation">>, <<65093, 65094, "OtherPunctuation">>, <<65095, 65095, "OpenPunctuation">>,
       <<65096, 65096, "ClosePunctuation">>, <<65097, 65100, "OtherPunctuation">>, <<65101, 65103, "ConnectorPunctuation">>,
       <<65104, 65106, "OtherPunctuation">>, <<65108, 65111, "OtherPunctuation">>, <<65112, 65112, "DashPunctuation">>,
       <<65113, 65113, "OpenPunctuation">>, <<65114, 65114, "ClosePunctuation">>, <<65115, 65115, "OpenPunctuation">>,
       <<65116, 65116, "ClosePunctuation">>, <<65117, 65117, "OpenPunctuation">>, <<65118, 65118, "ClosePunctuation">>,
       <<65119, 65121, "OtherPunctuation">>, <<65122, 65122, "MathSymbol">>, <<65123, 65123, "DashPunctuation">>,
       <<65124, 65126, "MathSymbol">>, <<65128, 65128, "OtherPunctuation">>, <<65129, 65129, "CurrencySymbol">>,
       <<65130, 65131, "OtherPunctuation">>, <<65136, 65140, "OtherLetter">>, <<65142, 65276, "OtherLetter">>,
       <<65279, 65279, "Format">>, <<65281, 65283, "OtherPunctuation">>, <<65284, 65284, "CurrencySymbol">>,
       <<65285, 65287, "OtherPunctuation">>, <<65288, 65288, "OpenPunctuation">>, <<65289, 65289, "ClosePunctuation">>,
       <<65290, 65290, "OtherPunctuation">>, <<65291, 65291, "MathSymbol">>, <<65292, 65292, "OtherPunctuation">>,
       <<65293, 65293, "DashPunctuation">>, <<65294, 65295, "OtherPunctuation">>, <<65296, 65305, "DecimalNumber">>,
       <<65306, 65307, "OtherPunctuation">>, <<65308, 65310, "MathSymbol">>, <<65311, 65312, "OtherPunctuation">>,
       <<65313, 65338, "UppercaseLetter">>, <<65339, 65339, "OpenPunctuation">>, <<65340, 65340, "OtherPunctuation">>,
       <<65341, 65341, "ClosePunctuation">>, <<65342, 65342, "ModifierSymbol">>, <<65343, 65343, "ConnectorPunctuation">>,
       <<65344, 65344, "ModifierSymbol">>, <<65345, 65370, "LowercaseLetter">>, <<65371, 65371, "OpenPunctuation">>,
       <<65372, 65372, "MathSymbol">>, <<65373, 65373, "ClosePunctuation">>, <<65374, 65374, "MathSymbol">>,
       <<65375, 65375, "OpenPunctuation">>, <<65376, 65376, "ClosePunctuation">>, <<65377, 65377, "OtherPunctuation">>,
       <<65378, 65378, "OpenPunctuation">>, <<65379, 65379, "ClosePunctuation">>, <<65380, 65381, "OtherPunctuation">>,
       <<65382, 65391, "OtherLetter">>, <<65392, 65392, "ModifierLetter">>, <<65393, 65437, "OtherLetter">>,
       <<65438, 65439, "ModifierLetter">>, <<65440, 65470, "OtherLetter">>, <<65474, 65479, "OtherLetter">>,
       <<65482, 65487, "OtherLetter">>, <<65490, 65495, "OtherLetter">>, <<65498, 65500, "OtherLetter">>,
       <<65504, 65505, "CurrencySymbol">>, <<65506, 65506, "MathSymbol">>, <<65507, 65507, "ModifierSymbol">>,
       <<65508, 65508, "OtherSymbol">>, <<65509, 65510, "CurrencySymbol">>, <<65512, 65512, "OtherSymbol">>,
       <<65513, 65516, "MathSymbol">>, <<65517, 65518, "OtherSymbol">>, <<65529, 65531, "Format">>,
       <<65532, 65533, "OtherSymbol">>, <<65536, 65547, "OtherLetter">>, <<65549, 65574, "OtherLetter">>,
       <<65576, 65594, "OtherLetter">>, <<65596, 65597, "OtherLetter">>, <<65599, 65613, "OtherLetter">>,
       <<65616, 65629, "OtherLetter">>, <<65664, 65786, "OtherLetter">>, <<65792, 65794, "OtherPunctuation">>,
       <<65799, 65843, "OtherNumber">>, <<65847, 65855, "OtherSymbol">>, <<65856, 65908, "LetterNumber">>,
       <<65909, 65912, "OtherNumber">>, <<65913, 65929, "OtherSymbol">>, <<65930, 65931, "OtherNumber">>,
       <<65932, 65934, "OtherSymbol">>, <<65936, 65948, "OtherSymbol">>, <<65952, 65952, "OtherSymbol">>,
       <<66000, 66044, "OtherSymbol">>, <<66045, 66045, "NonspacingMark">>, <<66176, 66204, "OtherLetter">>,
       <<66208, 66256, "OtherLetter">>, <<66272, 66272, "NonspacingMark">>, <<66273, 66299, "OtherNumber">>,
       <<66304, 66335, "OtherLetter">>, <<66336, 66339, "OtherNumber">>, <<66349, 66368, "OtherLetter">>,
       <<66369, 66369, "LetterNumber">>, <<66370, 66377, "OtherLetter">>, <<66378, 66378, "LetterNumber">>,
       <<66384, 66421, "OtherLetter">>, <<66422, 66426, "NonspacingMark">>, <<66432, 66461, "OtherLetter">>,
       <<66463, 66463, "OtherPunctuation">>, <<66464, 66499, "OtherLetter">>, <<66504, 66511, "OtherLetter">>,
       <<66512, 66512, "OtherPunctuation">>, <<66513, 66517, "LetterNumber">>, <<66560, 66599, "UppercaseLetter">>,
       <<66600, 66639, "LowercaseLetter">>, <<66640, 66717, "OtherLetter">>, <<66720, 66729, "DecimalNumber">>,
       <<66736, 66771, "UppercaseLetter">>, <<66776, 66811, "LowercaseLetter">>, <<66816, 66855, "OtherLetter">>,
       <<66864, 66915, "OtherLetter">>, <<66927, 66927, "OtherPunctuation">>, <<66928, 66938, "UppercaseLetter">>,
       <<66940, 66954, "UppercaseLetter">>, <<66956, 66962, "UppercaseLetter">>, <<66964, 66965, "UppercaseLetter">>,
       <<66967, 66977, "LowercaseLetter">>, <<66979, 66993, "LowercaseLetter">>, <<66995, 67001, "LowercaseLetter">>,
       <<67003, 67004, "LowercaseLetter">>, <<67072, 67382, "OtherLetter">>, <<67392, 67413, "OtherLetter">>,
       <<67424, 67431, "OtherLetter">>, <<67456, 67461, "ModifierLetter">>, <<67463, 67504, "ModifierLetter">>,
       <<67506, 67514, "ModifierLetter">>, <<67584, 67589, "OtherLetter">>, <<67592, 67592, "OtherLetter">>,
       <<67594, 67637, "OtherLetter">>, <<67639, 67640, "OtherLetter">>, <<67644, 67644, "OtherLetter">>,
       <<67647, 67669, "OtherLetter">>, <<67671, 67671, "OtherPunctuation">>, <<67672, 67679, "OtherNumber">>,
       <<67680, 67702, "OtherLetter">>, <<67703, 67704, "OtherSymbol">>, <<67705, 67711, "OtherNumber">>,
       <<67712, 67742, "OtherLetter">>, <<67751, 67759, "OtherNumber">>, <<67808, 67826, "OtherLetter">>,
       <<67828, 67829, "OtherLetter">>, <<67835, 67839, "OtherNumber">>, <<67840, 67861, "OtherLetter">>,
       <<67862, 67867, "OtherNumber">>, <<67871, 67871, "OtherPunctuation">>, <<67872, 67897, "OtherLetter">>,
       <<67903, 67903, "OtherPunctuation">>, <<67968, 68023, "OtherLetter">>, <<68028, 68029, "OtherNumber">>,
       <<68030, 68031, "OtherLetter">>, <<68032, 68047, "OtherNumber">>, <<68050, 68095, "OtherNumber">>,
       <<68096, 68096, "OtherLetter">>, <<68097, 68099, "NonspacingMark">>, <<68101, 68102, "NonspacingMark">>,
       <<68108, 68111, "NonspacingMark">>, <<68112, 68115, "OtherLetter">>, <<68117, 68119, "OtherLetter">>,
       <<68121, 68149, "OtherLetter">>, <<68152, 68154, "NonspacingMark">>, <<68159, 68159, "NonspacingMark">>,
       <<68160, 68168, "OtherNumber">>, <<68176, 68184, "OtherPunctuation">>, <<68192, 68220, "OtherLetter">>,
       <<68221, 68222, "OtherNumber">>, <<68223, 68223, "OtherPunctuation">>, <<68224, 68252, "OtherLetter">>,
       <<68253, 68255, "OtherNumber">>, <<68288, 68295, "OtherLetter">>, <<68296, 68296, "OtherSymbol">>,
       <<68297, 68324, "OtherLetter">>, <<68325, 68326, "NonspacingMark">>, <<68331, 68335, "OtherNumber">>,
       <<68336, 68342, "OtherPunctuation">>, <<68352, 68405, "OtherLetter">>, <<68409, 68415, "OtherPunctuation">>,
       <<68416, 68437, "OtherLetter">>, <<68440, 68447, "OtherNumber">>, <<68448, 68466, "OtherLetter">>,
       <<68472, 68479, "OtherNumber">>, <<68480, 68497, "OtherLetter">>, <<68505, 68508, "OtherPunctuation">>,
       <<68521, 68527, "OtherNumber">>, <<68608, 68680, "OtherLetter">>, <<68736, 68786, "UppercaseLetter">>,
       <<68800, 68850, "LowercaseLetter">>, <<68858, 68863, "OtherNumber">>, <<68864, 68899, "OtherLetter">>,
       <<68900, 68903, "NonspacingMark">>, <<68912, 68921, "DecimalNumber">>, <<69216, 69246, "OtherNumber">>,
       <<69248, 69289, "OtherLetter">>, <<69291, 69292, "NonspacingMark">>, <<69293, 69293, "DashPunctuation">>,
       <<69296, 69297, "OtherLetter">>, <<69373, 69375, "NonspacingMark">>, <<69376, 69404, "OtherLetter">>,
       <<69405, 69414, "OtherNumber">>, <<69415, 69415, "OtherLetter">>, <<69424, 69445, "OtherLetter">>,
       <<69446, 69456, "NonspacingMark">>, <<69457, 69460, "OtherNumber">>, <<69461, 69465, "OtherPunctuation">>,
       <<69488, 69505, "OtherLetter">>, <<69506, 69509, "NonspacingMark">>, <<69510, 69513, "OtherPunctuation">>,
       <<69552, 69572, "OtherLetter">>, <<69573, 69579, "OtherNumber">>, <<69600, 69622, "OtherLetter">>,
       <<69632, 69632, "SpacingMark">>, <<69633, 69633, "NonspacingMark">>, <<69634, 69634, "SpacingMark">>,
       <<69635, 69687, "OtherLetter">>, <<69688, 69702, "NonspacingMark">>, <<69703, 69709, "OtherPunctuation">>,
       <<69714, 69733, "OtherNumber">>, <<69734, 69743, "DecimalNumber">>, <<69744, 69744, "NonspacingMark">>,
       <<69745, 69746, "OtherLetter">>, <<69747, 69748, "NonspacingMark">>, <<69749, 69749, "OtherLetter">>,
       <<69759, 69761, "NonspacingMark">>, <<69762, 69762, "SpacingMark">>, <<69763, 69807, "OtherLetter">>,
       <<69808, 69810, "SpacingMark">>, <<69811, 69814, "NonspacingMark">>, <<69815, 69816, "SpacingMark">>,
       <<69817, 69818, "NonspacingMark">>, <<69819, 69820, "OtherPunctuation">>, <<69821, 69821, "Format">>,
       <<69822, 69825, "OtherPunctuation">>, <<69826, 69826, "NonspacingMark">>, <<69837, 69837, "Format">>,
       <<69840, 69864, "OtherLetter">>, <<69872, 69881, "DecimalNumber">>, <<69888, 69890, "NonspacingMark">>,
       <<69891, 69926, "OtherLetter">>, <<69927, 69931, "NonspacingMark">>, <<69932, 69932, "SpacingMark">>,
       <<69933, 69940, "NonspacingMark">>, <<69942, 69951, "DecimalNumber">>, <<69952, 69955, "OtherPunctuation">>,
       <<69956, 69956, "OtherLetter">>, <<69957, 69958, "SpacingMark">>, <<69959, 69959, "OtherLetter">>,
       <<69968, 70002, "OtherLetter">>, <<70003, 70003, "NonspacingMark">>, <<70004, 70005, "OtherPunctuation">>,
       <<70006, 70006, "OtherLetter">>, <<70016, 70017, "NonspacingMark">>, <<70018, 70018, "SpacingMark">>,
       <<70019, 70066, "OtherLetter">>, <<70067, 70069, "SpacingMark">>, <<70070, 70078, "NonspacingMark">>,
       <<70079, 70080, "SpacingMark">>, <<70081, 70084, "OtherLetter">>, <<70085, 70088, "OtherPunctuation">>,
       <<70089, 70092, "NonspacingMark">>, <<70093, 70093, "OtherPunctuation">>, <<70094, 70094, "SpacingMark">>,
       <<70095, 70095, "NonspacingMark">>, <<70096, 70105, "DecimalNumber">>, <<70106, 70106, "OtherLetter">>,
       <<70107, 70107, "OtherPunctuation">>, <<70108, 70108, "OtherLetter">>, <<70109, 70111, "OtherPunctuation">>,
       <<70113, 70132, "OtherNumber">>, <<70144, 70161, "OtherLetter">>, <<70163, 70187, "OtherLetter">>,
       <<70188, 70190, "SpacingMark">>, <<70191, 70193, "NonspacingMark">>, <<70194, 70195, "SpacingMark">>,
       <<70196, 70196, "NonspacingMark">>, <<70197, 70197, "SpacingMark">>, <<70198, 70199, "NonspacingMark">>,
       <<70200, 70205, "OtherPunctuation">>, <<70206, 70206, "NonspacingMark">>, <<70207, 70208, "OtherLetter">>,
       <<70209, 70209, "NonspacingMark">>, <<70272, 70278, "OtherLetter">>, <<70280, 70280, "OtherLetter">>,
       <<70282, 70285, "OtherLetter">>, <<70287, 70301, "OtherLetter">>, <<70303, 70312, "OtherLetter">>,
       <<70313, 70313, "OtherPunctuation">>, <<70320, 70366, "OtherLetter">>, <<70367, 70367, "NonspacingMark">>,
       <<70368, 70370, "SpacingMark">>, <<70371, 70378, "NonspacingMark">>, <<70384, 70393, "DecimalNumber">>,
       <<70400, 70401, "NonspacingMark">>, <<70402, 70403, "SpacingMark">>, <<70405, 70412, "OtherLetter">>,
       <<70415, 70416, "OtherLetter">>, <<70419, 70440, "OtherLetter">>, <<70442, 70448, "OtherLetter">>,
       <<70450, 70451, "OtherLetter">>, <<70453, 70457, "OtherLetter">>, <<70459, 70460, "NonspacingMark">>,
       <<70461, 70461, "OtherLetter">>, <<70462, 70463, "SpacingMark">>, <<70464, 70464, "NonspacingMark">>,
       <<70465, 70468, "SpacingMark">>, <<70471, 70472, "SpacingMark">>, <<70475, 70477, "SpacingMark">>,
       <<70480, 70480, "OtherLetter">>, <<70487, 70487, "SpacingMark">>, <<70493, 70497, "OtherLetter">>,
       <<70498, 70499, "SpacingMark">>, <<70502, 70508, "NonspacingMark">>, <<70512, 70516, "NonspacingMark">>,
       <<70656, 70708, "OtherLetter">>, <<70709, 70711, "SpacingMark">>, <<70712, 70719, "NonspacingMark">>,
       <<70720, 70721, "SpacingMark">>, <<70722, 70724, "NonspacingMark">>, <<70725, 70725, "SpacingMark">>,
       <<70726, 70726, "NonspacingMark">>, <<70727, 70730, "OtherLetter">>, <<70731, 70735, "OtherPunctuation">>,
       <<70736, 70745, "DecimalNumber">>, <<70746, 70747, "OtherPunctuation">>, <<70749, 70749, "OtherPunctuation">>,
       <<70750, 70750, "NonspacingMark">>, <<70751, 70753, "OtherLetter">>, <<70784, 70831, "OtherLetter">>,
       <<70832, 70834, "SpacingMark">>, <<70835, 70840, "NonspacingMark">>, <<70841, 70841, "SpacingMark">>,
       <<70842, 70842, "NonspacingMark">>, <<70843, 70846, "SpacingMark">>, <<70847, 70848, "NonspacingMark">>,
       <<70849, 70849, "SpacingMark">>, <<70850, 70851, "NonspacingMark">>, <<70852, 70853, "OtherLetter">>,
       <<70854, 70854, "OtherPunctuation">>, <<70855, 70855, "OtherLetter">>, <<70864, 70873, "DecimalNumber">>,
       <<71040, 71086, "OtherLetter">>, <<71087, 71089, "SpacingMark">>, <<71090, 71093, "NonspacingMark">>,
       <<71096, 71099, "SpacingMark">>, <<71100, 71101, "NonspacingMark">>, <<71102, 71102, "SpacingMark">>,
       <<71103, 71104, "NonspacingMark">>, <<71105, 71127, "OtherPunctuation">>, <<71128, 71131, "OtherLetter">>,
       <<71132, 71133, "NonspacingMark">>, <<71168, 71215, "OtherLetter">>, <<71216, 71218, "SpacingMark">>,
       <<71219, 71226, "NonspacingMark">>, <<71227, 71228, "SpacingMark">>, <<71229, 71229, "NonspacingMark">>,
       <<71230, 71230, "SpacingMark">>, <<71231, 71232, "NonspacingMark">>, <<71233, 71235, "OtherPunctuation">>,
       <<71236, 71236, "OtherLetter">>, <<71248, 71257, "DecimalNumber">>, <<71264, 71276, "OtherPunctuation">>,
       <<71296, 71338, "OtherLetter">>, <<71339, 71339, "NonspacingMark">>, <<71340, 71340, "SpacingMark">>,
       <<71341, 71341, "NonspacingMark">>, <<71342, 71343, "SpacingMark">>, <<71344, 71349, "NonspacingMark">>,
       <<71350, 71350, "SpacingMark">>, <<71351, 71351, "NonspacingMark">>, <<71352, 71352, "OtherLetter">>,
       <<71353, 71353, "OtherPunctuation">>, <<71360, 71369, "DecimalNumber">>, <<71424, 71450, "OtherLetter">>,
       <<71453, 71455, "NonspacingMark">>, <<71456, 71457, "SpacingMark">>, <<71458, 71461, "NonspacingMark">>,
       <<71462, 71462, "SpacingMark">>, <<71463, 71467, "NonspacingMark">>, <<71472, 71481, "DecimalNumber">>,
       <<71482, 71483, "OtherNumber">>, <<71484, 71486, "OtherPunctuation">>, <<71487, 71487, "OtherSymbol">>,
       <<71488, 71494, "OtherLetter">>, <<71680, 71723, "OtherLetter">>, <<71724, 71726, "SpacingMark">>,
       <<71727, 71735, "NonspacingMark">>, <<71736, 71736, "SpacingMark">>, <<71737, 71738, "NonspacingMark">>,
       <<71739, 71739, "OtherPunctuation">>, <<71840, 71871, "UppercaseLetter">>, <<71872, 71903, "LowercaseLetter">>,
       <<71904, 71913, "DecimalNumber">>, <<71914, 71922, "OtherNumber">>, <<71935, 71942, "OtherLetter">>,
       <<71945, 71945, "OtherLetter">>, <<71948, 71955, "OtherLetter">>, <<71957, 71958, "OtherLetter">>,
       <<71960, 71983, "OtherLetter">>, <<71984, 71989, "SpacingMark">>, <<71991, 71992, "SpacingMark">>,
       <<71995, 71996, "NonspacingMark">>, <<71997, 71997, "SpacingMark">>, <<71998, 71998, "NonspacingMark">>,
       <<71999, 71999, "OtherLetter">>, <<72000, 72000, "SpacingMark">>, <<72001, 72001, "OtherLetter">>,
       <<72002, 72002, "SpacingMark">>, <<72003, 72003, "NonspacingMark">>, <<72004, 72006, "OtherPunctuation">>,
       <<72016, 72025, "DecimalNumber">>, <<72096, 72103, "OtherLetter">>, <<72106, 72144, "OtherLetter">>,
       <<72145, 72147, "SpacingMark">>, <<72148, 72151, "NonspacingMark">>, <<72154, 72155, "NonspacingMark">>,
       <<72156, 72159, "SpacingMark">>, <<72160, 72160, "NonspacingMark">>, <<72161, 72161, "OtherLetter">>,
       <<72162, 72162, "OtherPunctuation">>, <<72163, 72163, "OtherLetter">>, <<72164, 72164, "SpacingMark">>,
       <<72192, 72192, "OtherLetter">>, <<72193, 72202, "NonspacingMark">>, <<72203, 72242, "OtherLetter">>,
       <<72243, 72248, "NonspacingMark">>, <<72249, 72249, "SpacingMark">>, <<72250, 72250, "OtherLetter">>,
       <<72251, 72254, "NonspacingMark">>, <<72255, 72262, "OtherPunctuation">>, <<72263, 72263, "NonspacingMark">>,
       <<72272, 72272, "OtherLetter">>, <<72273, 72278, "NonspacingMark">>, <<72279, 72280, "SpacingMark">>,
       <<72281, 72283, "NonspacingMark">>, <<72284, 72329, "OtherLetter">>, <<72330, 72342, "NonspacingMark">>,
       <<72343, 72343, "SpacingMark">>, <<72344, 72345, "NonspacingMark">>, <<72346, 72348, "OtherPunctuation">>,
       <<72349, 72349, "OtherLetter">>, <<72350, 72354, "OtherPunctuation">>, <<72368, 72440, "OtherLetter">>,
       <<72448, 72457, "OtherPunctuation">>, <<72704, 72712, "OtherLetter">>, <<72714, 72750, "OtherLetter">>,
       <<72751, 72751, "SpacingMark">>, <<72752, 72758, "NonspacingMark">>, <<72760, 72765, "NonspacingMark">>,
       <<72766, 72766, "SpacingMark">>, <<72767, 72767, "NonspacingMark">>, <<72768, 72768, "OtherLetter">>,
       <<72769, 72773, "OtherPunctuation">>, <<72784, 72793, "DecimalNumber">>, <<72794, 72812, "OtherNumber">>,
       <<72816, 72817, "OtherPunctuation">>, <<72818, 72847, "OtherLetter">>, <<72850, 72871, "NonspacingMark">>,
       <<72873, 72873, "SpacingMark">>, <<72874, 72880, "NonspacingMark">>, <<72881, 72881, "SpacingMark">>,
       <<72882, 72883, "NonspacingMark">>, <<72884, 72884, "SpacingMark">>, <<72885, 72886, "NonspacingMark">>,
       <<72960, 72966, "OtherLetter">>, <<72968, 72969, "OtherLetter">>, <<72971, 73008, "OtherLetter">>,
       <<73009, 73014, "NonspacingMark">>, <<73018, 73018, "NonspacingMark">>, <<73020, 73021, "NonspacingMark">>,
       <<73023, 73029, "NonspacingMark">>, <<73030, 73030, "OtherLetter">>, <<73031, 73031, "NonspacingMark">>,
       <<73040, 73049, "DecimalNumber">>, <<73056, 73061, "OtherLetter">>, <<73063, 73064, "OtherLetter">>,
       <<73066, 73097, "OtherLetter">>, <<73098, 73102, "SpacingMark">>, <<73104, 73105, "NonspacingMark">>,
       <<73107, 73108, "SpacingMark">>, <<73109, 73109, "NonspacingMark">>, <<73110, 73110, "SpacingMark">>,
       <<73111, 73111, "NonspacingMark">>, <<73112, 73112, "OtherLetter">>, <<73120, 73129, "DecimalNumber">>,
       <<73440, 73458, "OtherLetter">>, <<73459, 73460, "NonspacingMark">>, <<73461, 73462, "SpacingMark">>,
       <<73463, 73464, "OtherPunctuation">>, <<73472, 73473, "NonspacingMark">>, <<73474, 73474, "OtherLetter">>,
       <<73475, 73475, "SpacingMark">>, <<73476, 73488, "OtherLetter">>, <<73490, 73523, "OtherLetter">>,
       <<73524, 73525, "SpacingMark">>, <<73526, 73530, "NonspacingMark">>, <<73534, 73535, "SpacingMark">>,
       <<73536, 73536, "NonspacingMark">>, <<73537, 73537, "SpacingMark">>, <<73538, 73538, "NonspacingMark">>,
       <<73539, 73551, "OtherPunctuation">>, <<73552, 73561, "DecimalNumber">>, <<73648, 73648, "OtherLetter">>,
       <<73664, 73684, "OtherNumber">>, <<73685, 73692, "OtherSymbol">>, <<73693, 73696, "CurrencySymbol">>,
       <<73697, 73713, "OtherSymbol">>, <<73727, 73727, "OtherPunctuation">>, <<73728, 74649, "OtherLetter">>,
       <<74752, 74862, "LetterNumber">>, <<74864, 74868, "OtherPunctuation">>, <<74880, 75075, "OtherLetter">>,
       <<77712, 77808, "OtherLetter">>, <<77809, 77810, "OtherPunctuation">>, <<77824, 78895, "OtherLetter">>,
       <<78896, 78911, "Format">>, <<78912, 78912, "NonspacingMark">>, <<78913, 78918, "OtherLetter">>,
       <<78919, 78933, "NonspacingMark">>, <<82944, 83526, "OtherLetter">>, <<92160, 92728, "OtherLetter">>,
       <<92736, 92766, "OtherLetter">>, <<92768, 92777, "DecimalNumber">>, <<92782, 92783, "OtherPunctuation">>,
       <<92784, 92862, "OtherLetter">>, <<92864, 92873, "DecimalNumber">>, <<92880, 92909, "OtherLetter">>,
       <<92912, 92916, "NonspacingMark">>, <<92917, 92917, "OtherPunctuation">>, <<92928, 92975, "OtherLetter">>,
       <<92976, 92982, "NonspacingMark">>, <<92983, 92987, "OtherPunctuation">>, <<92988, 92991, "OtherSymbol">>,
       <<92992, 92995, "ModifierLetter">>, <<92996, 92996, "OtherPunctuation">>, <<92997, 92997, "OtherSymbol">>,
       <<93008, 93017, "DecimalNumber">>, <<93019, 93025, "OtherNumber">>, <<93027, 93047, "OtherLetter">>,
       <<93053, 93071, "OtherLetter">>, <<93760, 93791, "UppercaseLetter">>, <<93792, 93823, "LowercaseLetter">>,
       <<93824, 93846, "OtherNumber">>, <<93847, 93850, "OtherPunctuation">>, <<93952, 94026, "OtherLetter">>,
       <<94031, 94031, "NonspacingMark">>, <<94032, 94032, "OtherLetter">>, <<94033, 94087, "SpacingMark">>,
       <<94095, 94098, "NonspacingMark">>, <<94099, 94111, "ModifierLetter">>, <<94176, 94177, "ModifierLetter">>,
       <<94178, 94178, "OtherPunctuation">>, <<94179, 94179, "ModifierLetter">>, <<94180, 94180, "NonspacingMark">>,
       <<94192, 94193, "SpacingMark">>, <<94208, 100343, "OtherLetter">>, <<100352, 101589, "OtherLetter">>,
       <<101632, 101640, "OtherLetter">>, <<110576, 110579, "ModifierLetter">>, <<110581, 110587, "ModifierLetter">>,
       <<110589, 110590, "ModifierLetter">>, <<110592, 110882, "OtherLetter">>, <<110898, 110898, "OtherLetter">>,
       <<110928, 110930, "OtherLetter">>, <<110933, 110933, "OtherLetter">>, <<110948, 110951, "OtherLetter">>,
       <<110960, 111355, "OtherLetter">>, <<113664, 113770, "OtherLetter">>, <<113776, 113788, "OtherLetter">>,
       <<113792, 113800, "OtherLetter">>, <<113808, 113817, "OtherLetter">>, <<113820, 113820, "OtherSymbol">>,
       <<113821, 113822, "NonspacingMark">>, <<113823, 113823, "OtherPunctuation">>, <<113824, 113827, "Format">>,
       <<118528, 118573, "NonspacingMark">>, <<118576, 118598, "NonspacingMark">>, <<118608, 118723, "OtherSymbol">>,
       <<118784, 119029, "OtherSymbol">>, <<119040, 119078, "OtherSymbol">>, <<119081, 119140, "OtherSymbol">>,
       <<119141, 119142, "SpacingMark">>, <<119143, 119145, "NonspacingMark">>, <<119146, 119148, "OtherSymbol">>,
       <<119149, 119154, "SpacingMark">>, <<119155, 119162, "Format">>, <<119163, 119170, "NonspacingMark">>,
       <<119171, 119172, "OtherSymbol">>, <<119173, 119179, "NonspacingMark">>, <<119180, 119209, "OtherSymbol">>,
       <<119210, 119213, "NonspacingMark">>, <<119214, 119274, "OtherSymbol">>, <<119296, 119361, "OtherSymbol">>,
       <<119362, 119364, "NonspacingMark">>, <<119365, 119365, "OtherSymbol">>, <<119488, 119507, "OtherNumber">>,
       <<119520, 119539, "OtherNumber">>, <<119552, 119638, "OtherSymbol">>, <<119648, 119672, "OtherNumber">>,
       <<119808, 119833, "UppercaseLetter">>, <<119834, 119859, "LowercaseLetter">>, <<119860, 119885, "UppercaseLetter">>,
       <<119886, 119892, "LowercaseLetter">>, <<119894, 119911, "LowercaseLetter">>, <<119912, 119937, "UppercaseLetter">>,
       <<119938, 119963, "LowercaseLetter">>, <<119964, 119964, "UppercaseLetter">>, <<119966, 119967, "UppercaseLetter">>,
       <<119970, 119970, "UppercaseLetter">>, <<119973, 119974, "UppercaseLetter">>, <<119977, 119980, "UppercaseLetter">>,
       <<119982, 119989, "UppercaseLetter">>, <<119990, 119993, "LowercaseLetter">>, <<119995, 119995, "LowercaseLetter">>,
       <<119997, 120003, "LowercaseLetter">>, <<120005, 120015, "LowercaseLetter">>, <<120016, 120041, "UppercaseLetter">>,
       <<120042, 120067, "LowercaseLetter">>, <<120068, 120069, "UppercaseLetter">>, <<120071, 120074, "UppercaseLetter">>,
       <<120077, 120084, "UppercaseLetter">>, <<120086, 120092, "UppercaseLetter">>, <<120094, 120119, "LowercaseLetter">>,
       <<120120, 120121, "UppercaseLetter">>, <<120123, 120126, "UppercaseLetter">>, <<120128, 120132, "UppercaseLetter">>,
       <<120134, 120134, "UppercaseLetter">>, <<120138, 120144, "UppercaseLetter">>, <<120146, 120171, "LowercaseLetter">>,
       <<120172, 120197, "UppercaseLetter">>, <<120198, 120223, "LowercaseLetter">>, <<120224, 120249, "UppercaseLetter">>,
       <<120250, 120275, "LowercaseLetter">>, <<120276, 120301, "UppercaseLetter">>, <<120302, 120327, "LowercaseLetter">>,
       <<120328, 120353, "UppercaseLetter">>, <<120354, 120379, "LowercaseLetter">>, <<120380, 120405, "UppercaseLetter">>,
       <<120406, 120431, "LowercaseLetter">>, <<120432, 120457, "UppercaseLetter">>, <<120458, 120485, "LowercaseLetter">>,
       <<120488, 120512, "UppercaseLetter">>, <<120513, 120513, "MathSymbol">>, <<120514, 120538, "LowercaseLetter">>,
       <<120539, 120539, "MathSymbol">>, <<120540, 120545, "LowercaseLetter">>, <<120546, 120570, "UppercaseLetter">>,
       <<120571, 120571, "MathSymbol">>, <<120572, 120596, "LowercaseLetter">>, <<120597, 120597, "MathSymbol">>,
       <<120598, 120603, "LowercaseLetter">>, <<120604, 120628, "UppercaseLetter">>, <<120629, 120629, "MathSymbol">>,
       <<120630, 120654, "LowercaseLetter">>, <<120655, 120655, "MathSymbol">>, <<120656, 120661, "LowercaseLetter">>,
       <<120662, 120686, "UppercaseLetter">>, <<120687, 120687, "MathSymbol">>, <<120688, 120712, "LowercaseLetter">>,
       <<120713, 120713, "MathSymbol">>, <<120714, 120719, "LowercaseLetter">>, <<120720, 120744, "UppercaseLetter">>,
       <<120745, 120745, "MathSymbol">>, <<120746, 120770, "LowercaseLetter">>, <<120771, 120771, "MathSymbol">>,
       <<120772, 120777, "LowercaseLetter">>, <<120778, 120778, "UppercaseLetter">>, <<120779, 120779, "LowercaseLetter">>,
       <<120782, 120831, "DecimalNumber">>, <<120832, 121343, "OtherSymbol">>, <<121344, 121398, "NonspacingMark">>,
       <<121399, 121402, "OtherSymbol">>, <<121403, 121452, "NonspacingMark">>, <<121453, 121460, "OtherSymbol">>,
       <<121461, 121461, "NonspacingMark">>, <<121462, 121475, "OtherSymbol">>, <<121476, 121476, "NonspacingMark">>,
       <<121477, 121478, "OtherSymbol">>, <<121479, 121483, "OtherPunctuation">>, <<121499, 121503, "NonspacingMark">>,
       <<121505, 121519, "NonspacingMark">>, <<122624, 122633, "LowercaseLetter">>, <<122634, 122634, "OtherLetter">>,
       <<122635, 122654, "LowercaseLetter">>, <<122661, 122666, "LowercaseLetter">>, <<122880, 122886, "NonspacingMark">>,
       <<122888, 122904, "NonspacingMark">>, <<122907, 122913, "NonspacingMark">>, <<122915, 122916, "NonspacingMark">>,
       <<122918, 122922, "NonspacingMark">>, <<122928, 122989, "ModifierLetter">>, <<123023, 123023, "NonspacingMark">>,
       <<123136, 123180, "OtherLetter">>, <<123184, 123190, "NonspacingMark">>, <<123191, 123197, "ModifierLetter">>,
       <<123200, 123209, "DecimalNumber">>, <<123214, 123214, "OtherLetter">>, <<123215, 123215, "OtherSymbol">>,
       <<123536, 123565, "OtherLetter">>, <<123566, 123566, "NonspacingMark">>, <<123584, 123627, "OtherLetter">>,
       <<123628, 123631, "NonspacingMark">>, <<123632, 123641, "DecimalNumber">>, <<123647, 123647, "CurrencySymbol">>,
       <<124112, 124138, "OtherLetter">>, <<124139, 124139, "ModifierLetter">>, <<124140, 124143, "NonspacingMark">>,
       <<124144, 124153, "DecimalNumber">>, <<124896, 124902, "OtherLetter">>, <<124904, 124907, "OtherLetter">>,
       <<124909, 124910, "OtherLetter">>, <<124912, 124926, "OtherLetter">>, <<124928, 125124, "OtherLetter">>,
       <<125127, 125135, "OtherNumber">>, <<125136, 125142, "NonspacingMark">>, <<125184, 125217, "UppercaseLetter">>,
       <<125218, 125251, "LowercaseLetter">>, <<125252, 125258, "NonspacingMark">>, <<125259, 125259, "ModifierLetter">>,
       <<125264, 125273, "DecimalNumber">>, <<125278, 125279, "OtherPunctuation">>, <<126065, 126123, "OtherNumber">>,
       <<126124, 126124, "OtherSymbol">>, <<126125, 126127, "OtherNumber">>, <<126128, 126128, "CurrencySymbol">>,
       <<126129, 126132, "OtherNumber">>, <<126209, 126253, "OtherNumber">>, <<126254, 126254, "OtherSymbol">>,
       <<126255, 126269, "OtherNumber">>, <<126464, 126467, "OtherLetter">>, <<126469, 126495, "OtherLetter">>,
       <<126497, 126498, "OtherLetter">>, <<126500, 126500, "OtherLetter">>, <<126503, 126503, "OtherLetter">>,
       <<126505, 126514, "OtherLetter">>, <<126516, 126519, "OtherLetter">>, <<126521, 126521, "OtherLetter">>,
       <<126523, 126523, "OtherLetter">>, <<126530, 126530, "OtherLetter">>, <<126535, 126535, "OtherLetter">>,
       <<126537, 126537, "OtherLetter">>, <<126539, 126539, "OtherLetter">>, <<126541, 126543, "OtherLetter">>,
       <<126545, 126546, "OtherLetter">>, <<126548, 126548, "OtherLetter">>, <<126551, 126551, "OtherLetter">>,
       <<126553, 126553, "OtherLetter">>, <<126555, 126555, "OtherLetter">>, <<126557, 126557, "OtherLetter">>,
       <<126559, 126559, "OtherLetter">>, <<126561, 126562, "OtherLetter">>, <<126564, 126564, "OtherLetter">>,
       <<126567, 126570, "OtherLetter">>, <<126572, 126578, "OtherLetter">>, <<126580, 126583, "OtherLetter">>,
       <<126585, 126588, "OtherLetter">>, <<126590, 126590, "OtherLetter">>, <<126592, 126601, "OtherLetter">>,
       <<126603, 126619, "OtherLetter">>, <<126625, 126627, "OtherLetter">>, <<126629, 126633, "OtherLetter">>,
       <<126635, 126651, "OtherLetter">>, <<126704, 126705, "MathSymbol">>, <<126976, 127019, "OtherSymbol">>,
       <<127024, 127123, "OtherSymbol">>, <<127136, 127150, "OtherSymbol">>, <<127153, 127167, "OtherSymbol">>,
       <<127169, 127183, "OtherSymbol">>, <<127185, 127221, "OtherSymbol">>, <<127232, 127244, "OtherNumber">>,
       <<127245, 127405, "OtherSymbol">>, <<127462, 127490, "OtherSymbol">>, <<127504, 127547, "OtherSymbol">>,
       <<127552, 127560, "OtherSymbol">>, <<127568, 127569, "OtherSymbol">>, <<127584, 127589, "OtherSymbol">>,
       <<127744, 127994, "OtherSymbol">>, <<127995, 127999, "ModifierSymbol">>, <<128000, 128727, "OtherSymbol">>,
       <<128732, 128748, "OtherSymbol">>, <<128752, 128764, "OtherSymbol">>, <<128768, 128886, "OtherSymbol">>,
       <<128891, 128985, "OtherSymbol">>, <<128992, 129003, "OtherSymbol">>, <<129008, 129008, "OtherSymbol">>,
       <<129024, 129035, "OtherSymbol">>, <<129040, 129095, "OtherSymbol">>, <<129104, 129113, "OtherSymbol">>,
       <<129120, 129159, "OtherSymbol">>, <<129168, 129197, "OtherSymbol">>, <<129200, 129201, "OtherSymbol">>,
       <<129280, 129619, "OtherSymbol">>, <<129632, 129645, "OtherSymbol">>, <<129648, 129660, "OtherSymbol">>,
       <<129664, 129672, "OtherSymbol">>, <<129680, 129725, "OtherSymbol">>, <<129727, 129733, "OtherSymbol">>,
       <<129742, 129755, "OtherSymbol">>, <<129760, 129768, "OtherSymbol">>, <<129776, 129784, "OtherSymbol">>,
       <<129792, 129938, "OtherSymbol">>, <<129940, 129994, "OtherSymbol">>, <<130032, 130041, "DecimalNumber">>,
       <<131072, 173791, "OtherLetter">>, <<173824, 177977, "OtherLetter">>, <<177984, 178205, "OtherLetter">>,
       <<178208, 183969, "OtherLetter">>, <<183984, 191456, "OtherLetter">>, <<191472, 192093, "OtherLetter">>,
       <<194560, 195101, "OtherLetter">>, <<196608, 201546, "OtherLetter">>, <<201552, 205743, "OtherLetter">>,
       <<917505, 917505, "Format">>, <<917536, 917631, "Format">>, <<917760, 917999, "NonspacingMark">>,
       <<983040, 1048573, "PrivateUse">>, <<1048576, 1114109, "PrivateUse">>
    >>

\* the runs of GeneralCategory::DecimalNumber, ascending, as
\* iter_ranges_for_value yields them; all hold one family of ten but
\* U+1D7CE..U+1D7FF, which holds five
DecimalNumberRanges ==
    <<
       <<48, 57>>, <<1632, 1641>>, <<1776, 1785>>, <<1984, 1993>>, <<2406, 2415>>,
       <<2534, 2543>>, <<2662, 2671>>, <<2790, 2799>>, <<2918, 2927>>, <<3046, 3055>>,
       <<3174, 3183>>, <<3302, 3311>>, <<3430, 3439>>, <<3558, 3567>>, <<3664, 3673>>,
       <<3792, 3801>>, <<3872, 3881>>, <<4160, 4169>>, <<4240, 4249>>, <<6112, 6121>>,
       <<6160, 6169>>, <<6470, 6479>>, <<6608, 6617>>, <<6784, 6793>>, <<6800, 6809>>,
       <<6992, 7001>>, <<7088, 7097>>, <<7232, 7241>>, <<7248, 7257>>, <<42528, 42537>>,
       <<43216, 43225>>, <<43264, 43273>>, <<43472, 43481>>, <<43504, 43513>>, <<43600, 43609>>,
       <<44016, 44025>>, <<65296, 65305>>, <<66720, 66729>>, <<68912, 68921>>, <<69734, 69743>>,
       <<69872, 69881>>, <<69942, 69951>>, <<70096, 70105>>, <<70384, 70393>>, <<70736, 70745>>,
       <<70864, 70873>>, <<71248, 71257>>, <<71360, 71369>>, <<71472, 71481>>, <<71904, 71913>>,
       <<72016, 72025>>, <<72784, 72793>>, <<73040, 73049>>, <<73120, 73129>>, <<73552, 73561>>,
       <<92768, 92777>>, <<92864, 92873>>, <<93008, 93017>>, <<120782, 120831>>, <<123200, 123209>>,
       <<123632, 123641>>, <<124144, 124153>>, <<125264, 125273>>, <<130032, 130041>>
    >>

RangeContains(r, c) == r[1] <= c /\ c <= r[2]

\* binary search among runs lo..hi for the run holding c: its index, or 0
RECURSIVE RunIndex(_, _, _)
RunIndex(c, lo, hi) ==
    IF lo > hi THEN 0
    ELSE LET mid == (lo + hi) \div 2
             run == GeneralCategoryRuns[mid]
         IN IF c < run[1] THEN RunIndex(c, lo, mid - 1)
            ELSE IF c > run[2] THEN RunIndex(c, mid + 1, hi)
            ELSE mid

\* general_category().get(c)
GeneralCategory(c) ==
    LET k == RunIndex(c, 1, Len(GeneralCategoryRuns)) IN
    IF k = 0 THEN "Unassigned" ELSE GeneralCategoryRuns[k][3]

IsDecimalNumber(c) == GeneralCategory(c) = "DecimalNumber"

\* char::from_u32: None for surrogates and values above U+10FFFF
FromU32(n) ==
    IF n < 0 \/ n > 1114111 \/ (55296 <= n /\ n <= 57343) THEN None ELSE Some(n)

IsAsciiDigit(c) == 48 <= c /\ c <= 57

\* AsciiDigit::new: TRUE when the debug assertion holds
AsciiDigitNew(c) == IsAsciiDigit(c)

\* DigitFamily::new(c): the first range, in ascending order, that holds c
\* decides; None when the loop ends
DigitFamilyNew(c) ==
    LET holding == {k \in DOMAIN DecimalNumberRanges :
                       RangeContains(DecimalNumberRanges[k], c)}
    IN IF holding = {} THEN None
       ELSE LET r == DecimalNumberRanges[CHOOSE k \in holding : \A j \in holding : k <= j]
                index == c - r[1]
            IN FromU32((index \div 10) + r[1])

\* DigitFamily::digit before the unwrap: None is the panic
DigitFamilyDigit(family, d) ==
    LET num == d - 48 IN FromU32(num + family)

is_group_separator(c) ==
    GeneralCategory(c) \notin
        {"DecimalNumber", "LetterNumber", "OtherNumber", "UppercaseLetter",
         "LowercaseLetter", "TitlecaseLetter", "ModifierLetter", "OtherLetter"}

\* ----------------------------------------------------- format_integer.rs

OptionalDigit == [kind |-> "OptionalDigit", c |-> 0]
MandatoryDigit == [kind |-> "MandatoryDigit", c |-> 0]
GroupSeparator(c) == [kind |-> "GroupSeparator", c |-> c]

IsSeparator(sign) == sign.kind = "GroupSeparator"
IsDigitSign(sign) == sign.kind \in {"OptionalDigit", "MandatoryDigit"}

InvalidPictureString == "InvalidPictureString"

\* Pattern::parse: one step of the map over the characters, stopping at the
\* first Err
RECURSIVE ParseFrom(_, _, _, _, _)
ParseFrom(pattern, k, mandatory_seen, digit_family, signs) ==
    IF k > Len(pattern)
    THEN [ok |-> TRUE, signs |-> signs, digit_family |-> digit_family]
    ELSE LET c == pattern[k]
             err == [ok |-> FALSE, signs |-> <<>>, digit_family |-> None]
         IN
         IF c = 35
         THEN IF ~mandatory_seen
              THEN ParseFrom(pattern, k + 1, mandatory_seen, digit_family,
                             Append(signs, OptionalDigit))
              ELSE err
         ELSE IF is_group_separator(c)
         THEN ParseFrom(pattern, k + 1, mandatory_seen, digit_family,
                        Append(signs, GroupSeparator(c)))
         ELSE LET found_digit_family == DigitFamilyNew(c) IN
              IF found_digit_family = None THEN err
              ELSE IF digit_family # None /\ found_digit_family # digit_family THEN err
              ELSE ParseFrom(pattern, k + 1, TRUE, found_digit_family,
                             Append(signs, MandatoryDigit))

ParseSigns(pattern) == ParseFrom(pattern, 1, FALSE, None, <<>>)

RECURSIVE ValidateFrom(_, _)
ValidateFrom(pattern, k) ==
    IF k > Len(pattern) THEN TRUE
    ELSE LET sign == pattern[k]
             peek == IF k + 1 <= Len(pattern) THEN Some(pattern[k + 1]) ELSE None
         IN
         IF sign.kind = "OptionalDigit"
         THEN IF peek = None THEN FALSE ELSE ValidateFrom(pattern, k + 1)
         ELSE IF sign.kind = "GroupSeparator"
         THEN IF peek = None \/ IsSeparator(peek[1]) THEN FALSE
              ELSE ValidateFrom(pattern, k + 1)
         ELSE ValidateFrom(pattern, k + 1)

\* without the test of the first sign
Validate_NoFirstSignTest(pattern) == ValidateFrom(pattern, 1)

\* Pattern::validate: TRUE for Ok(())
Validate(pattern) ==
    IF Len(pattern) > 0 /\ IsSeparator(pattern[1]) THEN FALSE
    ELSE ValidateFrom(pattern, 1)

CountMandatory(signs) ==
    Cardinality({k \in DOMAIN signs : signs[k].kind = "MandatoryDigit"})

\* NonRegular::new
NonRegularNew(signs, digit_family) ==
    [kind |-> "NonRegular", signs |-> signs, group_separator |-> 0, count |-> 0,
     mandatory_digit_max |-> CountMandatory(signs), digit_family |-> digit_family]

\* Pattern::create_regular: the loop over signs.iter().rev(); None when a
\* separator or a group length differs
RECURSIVE CreateRegularFrom(_, _, _, _, _, _)
CreateRegularFrom(signs, k, last_separator, last_count, count, mandatory_digit_max_count) ==
    IF k < 1
    THEN Some([last_separator |-> last_separator, last_count |-> last_count,
               mandatory_digit_max_count |-> mandatory_digit_max_count])
    ELSE LET sign == signs[k] IN
         IF sign.kind = "GroupSeparator"
         THEN IF last_separator # None /\ last_separator[1] # sign.c THEN None
              ELSE IF last_count # None /\ count # last_count[1] THEN None
              ELSE CreateRegularFrom(signs, k - 1,
                       IF last_separator # None THEN last_separator ELSE Some(sign.c),
                       IF last_count # None THEN last_count ELSE Some(count),
                       0, mandatory_digit_max_count)
         ELSE IF sign.kind = "MandatoryDigit"
         THEN CreateRegularFrom(signs, k - 1, last_separator, last_count,
                                count + 1, mandatory_digit_max_count + 1)
         ELSE CreateRegularFrom(signs, k - 1, last_separator, last_count,
                                count + 1, mandatory_digit_max_count)

\* Pattern::create_regular: [panic, regular] with regular an Option<Regular>
CreateRegular(signs, digit_family) ==
    LET scan == CreateRegularFrom(signs, Len(signs), None, None, 0, 0) IN
    IF scan = None \/ scan[1].last_separator = None
    THEN [panic |-> FALSE, regular |-> None]
    ELSE IF scan[1].last_count = None
    THEN [panic |-> TRUE, regular |-> None]
    ELSE [panic |-> FALSE,
          regular |-> Some([kind |-> "Regular", signs |-> <<>>,
                            group_separator |-> scan[1].last_separator[1],
                            count |-> scan[1].last_count[1],
                            mandatory_digit_max |-> scan[1].mandatory_digit_max_count,
                            digit_family |-> digit_family])]

NoPattern == NonRegularNew(<<>>, None)

\* Pattern::new / Picture::parse: status is "ok", "err" or "panic"
PatternNew(picture) ==
    LET parsed == ParseSigns(picture) IN
    IF ~parsed.ok THEN [status |-> "err", pattern |-> NoPattern]
    ELSE IF ~Validate(parsed.signs) THEN [status |-> "err", pattern |-> NoPattern]
    ELSE LET regular == CreateRegular(parsed.signs, parsed.digit_family) IN
         IF regular.panic THEN [status |-> "panic", pattern |-> NoPattern]
         ELSE IF regular.regular # None
         THEN [status |-> "ok", pattern |-> regular.regular[1]]
         ELSE [status |-> "ok",
               pattern |-> NonRegularNew(parsed.signs, parsed.digit_family)]

\* NonRegular::signs without .rev()
SignsNext_NotReversed(pattern, taken) ==
    IF pattern.kind = "NonRegular"
    THEN IF taken < Len(pattern.signs)
         THEN pattern.signs[taken + 1]
         ELSE OptionalDigit
    ELSE IF taken < pattern.count
         THEN MandatoryDigit
         ELSE GroupSeparator(pattern.group_separator)

\* the next item of Pattern::signs() when `taken` is the state of the
\* iterator: for NonRegular the number of signs already taken from the
\* reversed list (then OptionalDigit for ever), for Regular the position of
\* RegularIterator
SignsNext(pattern, taken) ==
    IF pattern.kind = "NonRegular"
    THEN IF taken < Len(pattern.signs)
         THEN pattern.signs[Len(pattern.signs) - taken]
         ELSE OptionalDigit
    ELSE IF taken < pattern.count
         THEN MandatoryDigit
         ELSE GroupSeparator(pattern.group_separator)

\* RegularIterator::next without self.position = 0
SignsAdvance_NoReset(pattern, taken) ==
    IF pattern.kind = "NonRegular"
    THEN IF taken < Len(pattern.signs) THEN taken + 1 ELSE taken
    ELSE IF taken < pattern.count THEN taken + 1 ELSE taken

\* the iterator state after that item
SignsAdvance(pattern, taken) ==
    IF pattern.kind = "NonRegular"
    THEN IF taken < Len(pattern.signs) THEN taken + 1 ELSE taken
    ELSE IF taken < pattern.count THEN taken + 1 ELSE 0

\* without i.abs()
Abs_Identity(i) == i

\* i.abs()
Abs(i) == IF i < 0 THEN -i ELSE i

RECURSIVE NatToString(_)
NatToString(n) ==
    IF n < 10 THEN <<48 + n>> ELSE Append(NatToString(n \div 10), 48 + (n % 10))

\* IBig::to_string
ToString(i) == IF i < 0 THEN <<45>> \o NatToString(-i) ELSE NatToString(i)

\* the operands of saturating_sub exchanged
ZerosAmount_Swapped(mandatory_digit_max, digit_count) ==
    IF digit_count > mandatory_digit_max THEN digit_count - mandatory_digit_max ELSE 0

\* mandatory_digit_max().saturating_sub(s.chars().count())
ZerosAmount(mandatory_digit_max, digit_count) ==
    IF mandatory_digit_max > digit_count THEN mandatory_digit_max - digit_count ELSE 0

\* s.chars().rev().chain(zeros): the whole digit stream, least significant first
DigitStream(pattern, i) ==
    LET s == ToString(Abs(i)) IN
    Reverse(s) \o Repeat(48, ZerosAmount(pattern.mandatory_digit_max, Len(s)))

\* without the peek at the digit stream
SeparatorEmits_Always(digits) == TRUE

\* the GroupSeparator arm: does it emit (TRUE) or end the output (FALSE)
SeparatorEmits(digits) == digits # <<>>

\* one call of the output closure: what it does with `sign` given the
\* remaining digit stream; status is "emit", "stop" or "panic"
Emit(pattern, sign, digits) ==
    IF IsDigitSign(sign)
    THEN IF digits = <<>> THEN [status |-> "stop", c |-> 0, digits |-> digits]
         ELSE LET digit == Head(digits) IN
              IF pattern.digit_family # None
              THEN IF ~AsciiDigitNew(digit)
                   THEN [status |-> "panic", c |-> 0, digits |-> Tail(digits)]
                   ELSE LET ch == DigitFamilyDigit(pattern.digit_family[1], digit) IN
                        IF ch = None
                        THEN [status |-> "panic", c |-> 0, digits |-> Tail(digits)]
                        ELSE [status |-> "emit", c |-> ch[1], digits |-> Tail(digits)]
              ELSE [status |-> "emit", c |-> digit, digits |-> Tail(digits)]
    ELSE IF SeparatorEmits(digits)
         THEN [status |-> "emit", c |-> sign.c, digits |-> digits]
         ELSE [status |-> "stop", c |-> 0, digits |-> digits]

\* .chain(negative_vec), collect, reverse
Collect(output, i) ==
    Reverse(output \o (IF i < 0 THEN <<45>> ELSE <<>>))

\* ------------------------------------------------------------------ inputs

\* '#', ',', '.', '1', MATHEMATICAL DOUBLE-STRUCK DIGIT ONE
FormatAlphabet == {35, 44, 46, 49, 120793}

\* the above and 'b', ARABIC-INDIC DIGIT ONE, MATHEMATICAL BOLD DIGIT ONE
ParseAlphabet == FormatAlphabet \cup {98, 1633, 120783}

RECURSIVE Counting(_)
Counting(k) == IF k = 0 THEN 0 ELSE Counting(k - 1) * 10 + k

RECURSIVE Pow10(_)
Pow10(k) == IF k = 0 THEN 1 ELSE 10 * Pow10(k - 1)

\* 0, and for each digit count 12..k and 10..0, both signs
Values ==
    {0} \cup {s * m : s \in {1, -1},
                      m \in {Counting(k) : k \in 1..MaxDigits}
                            \cup {Pow10(k - 1) : k \in 1..MaxDigits}}

\* ------------------------------------------------------------------- state

VARIABLES picture, value, pc, pattern, taken, digits, output, sign, steps, result

vars == <<picture, value, pc, pattern, taken, digits, output, sign, steps, result>>

NoSign == [kind |-> "None", c |-> 0]

Start(pictures, values) ==
    /\ picture \in pictures
    /\ value \in values
    /\ pc = "call"
    /\ pattern = NoPattern
    /\ taken = 0
    /\ digits = <<>>
    /\ output = <<>>
    /\ sign = NoSign
    /\ steps = 0
    /\ result = [ok |-> FALSE, string |-> <<>>, error |-> ""]

Init == Start(Strings(FormatAlphabet, MaxLen), Values)

InitParse == Start(Strings(ParseAlphabet, MaxLen), {0})

\* format_integer, first line: Picture::parse(picture)?
Parse ==
    /\ pc = "call"
    /\ \E p \in {PatternNew(picture)} :
       /\ pattern' = p.pattern
       /\ pc' = IF p.status = "ok" THEN "format"
                ELSE IF p.status = "err" THEN "error" ELSE "panic"
       /\ result' = IF p.status = "err"
                    THEN [ok |-> FALSE, string |-> <<>>, error |-> InvalidPictureString]
                    ELSE result
    /\ UNCHANGED <<picture, value, taken, digits, output, sign, steps>>

\* Picture::format up to the creation of the sign and digit iterators
FormatBegin ==
    /\ pc = "format"
    /\ digits' = DigitStream(pattern, value)
    /\ taken' = 0
    /\ output' = <<>>
    /\ pc' = "walk"
    /\ UNCHANGED <<picture, value, pattern, sign, steps, result>>

\* one call of the output closure on the sign s
Step(s) ==
    LET e == Emit(pattern, s, digits) IN
    /\ sign' = s
    /\ taken' = SignsAdvance(pattern, taken)
    /\ steps' = steps + 1
    /\ digits' = e.digits
    /\ output' = IF e.status = "emit" THEN Append(output, e.c) ELSE output
    /\ pc' = IF e.status = "emit" THEN "walk"
             ELSE IF e.status = "stop" THEN "collect" ELSE "panic"
    /\ UNCHANGED <<picture, value, pattern, result>>

\* the closure on Sign::OptionalDigit | Sign::MandatoryDigit
WalkDigit ==
    /\ pc = "walk"
    /\ IsDigitSign(SignsNext(pattern, taken))
    /\ Step(SignsNext(pattern, taken))

\* the closure on Sign::GroupSeparator(c)
WalkSeparator ==
    /\ pc = "walk"
    /\ IsSeparator(SignsNext(pattern, taken))
    /\ Step(SignsNext(pattern, taken))

\* the end of Picture::format and the Ok of format_integer
Finish ==
    /\ pc = "collect"
    /\ result' = [ok |-> TRUE, string |-> Collect(output, value), error |-> ""]
    /\ pc' = "done"
    /\ UNCHANGED <<picture, value, pattern, taken, digits, output, sign, steps>>

Next == Parse \/ FormatBegin \/ WalkDigit \/ WalkSeparator \/ Finish

Spec == Init /\ [][Next]_vars

NextParse == Parse

SpecParse == InitParse /\ [][NextParse]_vars

\* Picture::format as a function of the pattern: the same closure, called
\* until it returns None
RECURSIVE WalkAll(_, _, _, _)
WalkAll(pat, tk, ds, out) ==
    LET e == Emit(pat, SignsNext(pat, tk), ds) IN
    IF e.status = "emit"
    THEN WalkAll(pat, SignsAdvance(pat, tk), e.digits, Append(out, e.c))
    ELSE out

Format(pat, i) == Collect(WalkAll(pat, 0, DigitStream(pat, i), <<>>), i)

\* ---------------------------------------------- what the claims refer to

Max(a, b) == IF a >= b THEN a ELSE b

\* the decimal value of a decimal-digit character, and the zero of its own
\* block of ten (every DecimalNumber range starts at a zero)
DecimalValue(c) ==
    LET run == GeneralCategoryRuns[RunIndex(c, 1, Len(GeneralCategoryRuns))]
    IN (c - run[1]) % 10

BlockZero(c) == c - DecimalValue(c)

\* the decimal digits of |value|, as ASCII
Magnitude == NatToString(IF value < 0 THEN -value ELSE value)

ZeroPadded(s, width) == Repeat(48, width - Len(s)) \o s

\* the signs of the picture and the number of mandatory ones
PictureSigns == ParseSigns(picture).signs
MandatoryMax == Cardinality({k \in DOMAIN picture : IsDecimalNumber(picture[k])})

\* digits the walk has to place
PaddedCount == Max(Len(Magnitude), MandatoryMax)

\* the output without the sign character
Body == IF value < 0 /\ result.string # <<>> THEN Tail(result.string) ELSE result.string

\* C1: a picture of ASCII digits only is accepted, and the result is |value|
\* zero-padded to the picture's length, with '-' in front iff value < 0
C1_ZeroPadding ==
    (\A k \in DOMAIN picture : IsAsciiDigit(picture[k])) =>
        /\ pc \notin {"error", "panic"}
        /\ pc = "done" =>
              /\ result.ok
              /\ result.string = (IF value < 0 THEN <<45>> ELSE <<>>)
                                    \o ZeroPadded(Magnitude, Len(picture))

C1_Witness ==
    /\ pc = "done"
    /\ Len(picture) >= 3
    /\ \A k \in DOMAIN picture : IsAsciiDigit(picture[k])
    /\ value < 0
    /\ Len(Magnitude) < Len(picture)

\* the picture's signs continued to the left as the Regular pattern reads
\* them: the leftmost group filled up to `count` digit signs, then `reps`
\* further groups of `count` digit signs, each followed by the separator
ExtendedSigns(signs, separator, count, reps) ==
    LET seps == {k \in DOMAIN signs : IsSeparator(signs[k])}
        lead == IF seps = {} THEN Len(signs)
                ELSE (CHOOSE k \in seps : \A j \in seps : k <= j) - 1
        group == Repeat(OptionalDigit, count) \o <<GroupSeparator(separator)>>
        RECURSIVE Groups(_)
        Groups(n) == IF n <= 0 THEN <<>> ELSE group \o Groups(n - 1)
    IN Groups(reps) \o Repeat(OptionalDigit, count - lead) \o signs

\* C2: a picture classified Regular formats every integer as the NonRegular
\* pattern does whose sign list is the picture's own, continued to the left
\* by repetitions of its separator and group
C2_RegularIsOptimisation ==
    (pc = "done" /\ pattern.kind = "Regular") =>
        result.string =
            Format(NonRegularNew(ExtendedSigns(PictureSigns, pattern.group_separator,
                                               pattern.count, PaddedCount),
                                 pattern.digit_family),
                   value)

\* the characters of a picture that stand for a group separator
IsSeparatorChar(c) == c # 35 /\ is_group_separator(c)

\* the six reasons of C3 to refuse a picture
Refused(p) ==
    \/ \E k \in DOMAIN p :
          p[k] # 35 /\ ~is_group_separator(p[k]) /\ ~IsDecimalNumber(p[k])
    \/ \E j, k \in DOMAIN p :
          /\ IsDecimalNumber(p[j]) /\ IsDecimalNumber(p[k])
          /\ BlockZero(p[j]) # BlockZero(p[k])
    \/ \E j, k \in DOMAIN p : j < k /\ IsDecimalNumber(p[j]) /\ p[k] = 35
    \/ IsSeparatorChar(p[1])
    \/ \E k \in DOMAIN p :
          IsSeparatorChar(p[k]) /\ (k = Len(p) \/ IsSeparatorChar(p[k + 1]))
    \/ p[Len(p)] = 35

\* C3: a non-empty picture is refused with InvalidPictureString exactly for
\* one of the six reasons, and accepted otherwise
C3_ParseErrors ==
    (Len(picture) >= 1 /\ pc # "call") =>
        /\ pc \in {"error", "format"}
        /\ pc = "error" <=> Refused(picture)
        /\ pc = "error" => (~result.ok /\ result.error = InvalidPictureString)

C3_Witness ==
    /\ pc = "error"
    /\ Len(picture) >= 3
    /\ IsDecimalNumber(picture[1]) /\ IsDecimalNumber(picture[2])
    /\ BlockZero(picture[1]) # BlockZero(picture[2])
    /\ result.error = InvalidPictureString

\* C4: the family of a digit of the picture is the zero of the digit's own
\* block of ten, and the family gives the digit back for its decimal value
C4_FamilyIsBlockZero ==
    pc = "format" =>
        \A k \in DOMAIN picture :
            IsDecimalNumber(picture[k]) =>
                /\ DigitFamilyNew(picture[k]) = Some(BlockZero(picture[k]))
                /\ pattern.digit_family = Some(BlockZero(picture[k]))
                /\ DigitFamilyDigit(pattern.digit_family[1], 48 + DecimalValue(picture[k]))
                       = Some(picture[k])

\* the decimal values of the digit characters of a string, in order
DigitValues(str) ==
    LET ds == SelectSeq(str, IsDecimalNumber) IN
    [k \in DOMAIN ds |-> DecimalValue(ds[k])]

\* C5: without '-' and separators the result is the digits of |value|, in
\* order, after Max(0, mandatory_max - n) zeros, and nothing else
C5_DigitsPreserved ==
    pc = "done" =>
        DigitValues(result.string) = DigitValues(ZeroPadded(Magnitude, MandatoryMax))

\* the k-th character of the body and the k-th sign, counted from the right
FromRight(seq, k) == seq[Len(seq) + 1 - k]

\* digit signs among the first k - 1 signs from the right
DigitSignsBefore(signs, k) ==
    Cardinality({j \in 1..(k - 1) : IsDigitSign(FromRight(signs, j))})

\* C6: for a NonRegular picture the body has a separator at position k from
\* the right exactly when the k-th sign from the right is that separator and
\* a digit is still to be placed; beyond the leftmost sign there is none
C6_NonRegularSeparators ==
    (pc = "done" /\ pattern.kind = "NonRegular") =>
        \A k \in 1..(Len(PictureSigns) + Len(Body)) :
            LET inBody == k <= Len(Body) /\ ~IsDecimalNumber(FromRight(Body, k))
                inPicture == /\ k <= Len(PictureSigns)
                             /\ IsSeparator(FromRight(PictureSigns, k))
                             /\ DigitSignsBefore(PictureSigns, k) < PaddedCount
            IN /\ inBody <=> inPicture
               /\ inBody => FromRight(Body, k) = FromRight(PictureSigns, k).c

C6_Witness ==
    /\ pc = "done"
    /\ pattern.kind = "NonRegular"
    /\ Cardinality({pattern.signs[k].c : k \in {j \in DOMAIN pattern.signs :
                                                  IsSeparator(pattern.signs[j])}}) = 2
    /\ Len(SelectSeq(Body, IsDecimalNumber)) > Len(SelectSeq(pattern.signs, IsDigitSign))

\* C7: the only failure is InvalidPictureString, decided by Picture::parse
\* before anything is emitted; after a successful parse nothing panics and
\* the result is a complete string
C7_OnlyParseFails ==
    /\ pc # "panic"
    /\ pc # "call" => (pc = "error" <=> PatternNew(picture).status # "ok")
    /\ pc = "error" =>
          /\ ~result.ok /\ result.error = InvalidPictureString /\ result.string = <<>>
          /\ output = <<>> /\ steps = 0
    /\ pc = "done" =>
          /\ result.ok /\ result.error = ""
          /\ digits = <<>>
          /\ Len(result.string) = Len(output) + (IF value < 0 THEN 1 ELSE 0)

C7_Witness ==
    /\ pc = "done"
    /\ pattern.kind = "Regular"
    /\ pattern.digit_family # None /\ pattern.digit_family # Some(48)
    /\ value < 0
    /\ Len(output) > Len(picture)

\* C8: the body starts with a digit and every separator in it stands
\* between two digits; during the walk a separator is emitted only while a
\* digit remains, and the sign after it is a digit sign
C8_NoLeadingSeparator ==
    /\ pc = "done" =>
          /\ Body # <<>>
          /\ IsDecimalNumber(Body[1])
          /\ \A k \in DOMAIN Body :
                ~IsDecimalNumber(Body[k]) =>
                    /\ 1 < k /\ k < Len(Body)
                    /\ IsDecimalNumber(Body[k - 1])
                    /\ IsDecimalNumber(Body[k + 1])
    /\ (pc = "walk" /\ IsSeparator(sign)) =>
          /\ digits # <<>>
          /\ output # <<>> /\ output[Len(output)] = sign.c
          /\ IsDigitSign(SignsNext(pattern, taken))

C8_Witness ==
    /\ pc = "done"
    /\ IsSeparator(sign)
    /\ Len(SelectSeq(picture, IsSeparatorChar)) >= 1
    /\ Len(SelectSeq(Body, IsSeparatorChar)) >= 1
    /\ Len(SelectSeq(Body, IsSeparatorChar)) < Len(SelectSeq(picture, IsSeparatorChar))

\* C9: the walk ends: it consumes PaddedCount digits, never takes two
\* separators in a row, can always take its next step, and has taken at most
\* 2 * PaddedCount + 1 steps when it stops
C9_WalkTerminates ==
    /\ pc \in {"walk", "collect", "done"} =>
          /\ steps <= 2 * PaddedCount + 1
          /\ Len(SelectSeq(output, IsDecimalNumber)) + Len(digits) = PaddedCount
          /\ steps = Len(output) + (IF pc = "walk" THEN 0 ELSE 1)
    /\ pc \in {"collect", "done"} => digits = <<>>
    /\ pc = "walk" =>
          /\ ENABLED (WalkDigit \/ WalkSeparator)
          /\ IsSeparator(sign) => IsDigitSign(SignsNext(pattern, taken))
          /\ (digits = <<>> /\ steps > 0) => IsDigitSign(sign)

C9_Witness ==
    /\ pc = "done"
    /\ pattern.kind = "Regular"
    /\ steps = 2 * PaddedCount
    /\ PaddedCount >= 3

\* C10: an accepted picture, of whatever length, has a MandatoryDigit as its
\* last sign, so mandatory_max >= 1 and a digit family is known
C10_AcceptedHasMandatory ==
    pc = "format" =>
        /\ Len(PictureSigns) >= 1
        /\ PictureSigns[Len(PictureSigns)] = MandatoryDigit
        /\ pattern.mandatory_digit_max >= 1
        /\ pattern.digit_family # None

====
